---- MODULE Spec2Model ----
(***************************************************************************)
(* A model of scripts/crawler_empresas.py: the URL classifier, the         *)
(* document downloader, the archive expander and the run of one company    *)
(* (process_empresa) against the store, the cache files and the site.      *)
(***************************************************************************)
EXTENDS Integers, Sequences, FiniteSets, TLC

VARIABLES
    \* classification of one URL
    cl_url, cl_pc, cl_doc, cl_def,
    cl_nav,         \* what the navigation filter answers for the URL
    \* the tags of one page URL
    tag_url,        \* the URL, as the tuple of its parts
    tag_pc,         \* "input", "done"
    tag_path,       \* what extract_path_tags returned
    tag_list,       \* tags, as it is written to the row
    \* one call of download_document after the other
    dl_url,         \* the url argument
    dl_pc,          \* "idle", "head", "get", "stream", "done", "cancelled"
    dl_clean_url,   \* clean_url, the URL that is requested
    attempt,        \* the loop variable of the retry loop
    dl_filename,    \* filename (local_path is docs_dir/filename)
    dl_response,    \* Content-Type and Content-Disposition of the GET response
    content_size,   \* bytes written by the current attempt
    disk,           \* the documents directory: file name -> size
    dl_net,         \* the network requests of the call
    dl_sleeps,      \* the arguments of asyncio.sleep, in order
    dl_last,        \* how the last finished attempt ended
    dl_result,      \* the returned tuple
    dl_calls,       \* number of calls so far
    dl_disk0,       \* the disk when the call started
    dl_existed,     \* whether the test of line 723 found the file
    \* one call of extract_zip_file
    zip_pc,         \* "idle", "done"
    zip_archive,    \* the archive at zip_path
    parent_url,     \* the parent_url argument
    zip_cur,        \* the cursor argument: rows inserted in the open transaction
    zip_faults,     \* the entries at which the store and the file copy raise
    extracted_files, \* the returned list
    \* the runs of process_empresa for one company
    empresa,        \* nome_empresa
    site,           \* the company's site: what each of its URLs is
    db,             \* the committed rows of the company's table, in insertion order
    cache,          \* the company's two cache files: the URLs they list
    run_pc,         \* "idle", "preanalysis", "crawl", "pages", "docs", "gather", "results",
                    \* "extract", "done", "aborted" (an exception left process_empresa), "rejected"
    env_ok,         \* whether the environment has the variables get_db_connection requires
    counters,       \* novas_paginas, atualizadas, documentos_baixados, ...
    logged,         \* the run's log records that carry a count
    runs,           \* runs started so far
    failures,       \* failures of the site, the network and the store so far
    force_update, skip_browser, use_cache,
    existing_urls, probable_document_urls, document_urls, crawled_urls,
    frontier,       \* the crawling library: URLs waiting to be navigated
    seen,           \* the crawling library: URLs it has scheduled
    results,        \* the list returned by crawler.arun
    page_i,         \* position of the page loop in results
    doc_i,          \* the loop variable i of the batch loop
    download_tasks, \* the URLs whose download_document calls gather is awaiting
    download_results, \* download_results of the current batch
    idx,            \* position of the result loop in download_results
    uuids,          \* number of uuid4 values drawn so far
    fetched,        \* the run's content fetches: op and url (op "cancelled": a download
                    \* that the timeout of its batch cancelled)
    known_at_start, \* the links of the table when the run started
    extractions     \* the parent_url of every extract_zip_file call so far

clvars == <<cl_url, cl_pc, cl_doc, cl_def, cl_nav>>

tagvars == <<tag_url, tag_pc, tag_path, tag_list>>


(***************************************************************************)
(* Text.  A Python str is modelled as a tuple of one-character strings, so *)
(* that endswith, `in`, split and replace are computed character by        *)
(* character.  Chars gives the tuple of every string literal the model     *)
(* uses; Str is the inverse (tuple to TLA+ string).                        *)
(***************************************************************************)
Chars ==
     (".pdf" :> <<".","p","d","f">>) @@
     (".docx" :> <<".","d","o","c","x">>) @@
     (".doc" :> <<".","d","o","c">>) @@
     (".xlsx" :> <<".","x","l","s","x">>) @@
     (".xls" :> <<".","x","l","s">>) @@
     (".pptx" :> <<".","p","p","t","x">>) @@
     (".ppt" :> <<".","p","p","t">>) @@
     (".csv" :> <<".","c","s","v">>) @@
     (".zip" :> <<".","z","i","p">>) @@
     (".rar" :> <<".","r","a","r">>) @@
     (".7z" :> <<".","7","z">>) @@
     (".gz" :> <<".","g","z">>) @@
     (".tar" :> <<".","t","a","r">>) @@
     (".bz2" :> <<".","b","z","2">>) @@
     (".xz" :> <<".","x","z">>) @@
     (".odt" :> <<".","o","d","t">>) @@
     (".ods" :> <<".","o","d","s">>) @@
     (".odp" :> <<".","o","d","p">>) @@
     (".txt" :> <<".","t","x","t">>) @@
     (".rtf" :> <<".","r","t","f">>) @@
     (".epub" :> <<".","e","p","u","b">>) @@
     (".mobi" :> <<".","m","o","b","i">>) @@
     (".pub" :> <<".","p","u","b">>) @@
     (".vsd" :> <<".","v","s","d">>) @@
     (".msg" :> <<".","m","s","g">>) @@
     (".xml" :> <<".","x","m","l">>) @@
     (".json" :> <<".","j","s","o","n">>) @@
     (".jpg" :> <<".","j","p","g">>) @@
     (".jpeg" :> <<".","j","p","e","g">>) @@
     (".png" :> <<".","p","n","g">>) @@
     (".gif" :> <<".","g","i","f">>) @@
     (".mp3" :> <<".","m","p","3">>) @@
     (".mp4" :> <<".","m","p","4">>) @@
     (".wav" :> <<".","w","a","v">>) @@
     ("/storage/" :> <<"/","s","t","o","r","a","g","e","/">>) @@
     ("/download/" :> <<"/","d","o","w","n","l","o","a","d","/">>) @@
     ("/arquivos/" :> <<"/","a","r","q","u","i","v","o","s","/">>) @@
     ("/documentos/" :> <<"/","d","o","c","u","m","e","n","t","o","s","/">>) @@
     ("/files/" :> <<"/","f","i","l","e","s","/">>) @@
     ("/attachments/" :> <<"/","a","t","t","a","c","h","m","e","n","t","s","/">>) @@
     ("/anexos/" :> <<"/","a","n","e","x","o","s","/">>) @@
     (".html" :> <<".","h","t","m","l">>) @@
     (".htm" :> <<".","h","t","m">>) @@
     (".php" :> <<".","p","h","p">>) @@
     (".asp" :> <<".","a","s","p">>) @@
     (".aspx" :> <<".","a","s","p","x">>) @@
     (".jsp" :> <<".","j","s","p">>) @@
     ("download=" :> <<"d","o","w","n","l","o","a","d","=">>) @@
     ("file=" :> <<"f","i","l","e","=">>) @@
     ("attachment=" :> <<"a","t","t","a","c","h","m","e","n","t","=">>) @@
     ("document=" :> <<"d","o","c","u","m","e","n","t","=">>) @@
     ("arquivo=" :> <<"a","r","q","u","i","v","o","=">>) @@
     ("download" :> <<"d","o","w","n","l","o","a","d">>) @@
     ("document" :> <<"d","o","c","u","m","e","n","t">>) @@
     ("file" :> <<"f","i","l","e">>) @@
     ("arquivo" :> <<"a","r","q","u","i","v","o">>) @@
     ("edital" :> <<"e","d","i","t","a","l">>) @@
     ("formulario" :> <<"f","o","r","m","u","l","a","r","i","o">>) @@
     ("anexo" :> <<"a","n","e","x","o">>) @@
     ("/docs/" :> <<"/","d","o","c","s","/">>) @@
     ("/documents/" :> <<"/","d","o","c","u","m","e","n","t","s","/">>) @@
     ("doc=" :> <<"d","o","c","=">>) @@
     ("filename=" :> <<"f","i","l","e","n","a","m","e","=">>) @@
     ("pdf" :> <<"p","d","f">>) @@
     ("doc" :> <<"d","o","c">>) @@
     ("docx" :> <<"d","o","c","x">>) @@
     ("xls" :> <<"x","l","s">>) @@
     ("xlsx" :> <<"x","l","s","x">>) @@
     ("ppt" :> <<"p","p","t">>) @@
     ("pptx" :> <<"p","p","t","x">>) @@
     ("zip" :> <<"z","i","p">>) @@
     ("http://" :> <<"h","t","t","p",":","/","/">>) @@
     ("https://" :> <<"h","t","t","p","s",":","/","/">>) @@
     ("//" :> <<"/","/">>) @@
     ("ftp://" :> <<"f","t","p",":","/","/">>) @@
     ("portal.gov.br" :> <<"p","o","r","t","a","l",".","g","o","v",".","b","r">>) @@
     ("/" :> <<"/">>) @@
     ("/noticias/" :> <<"/","n","o","t","i","c","i","a","s","/">>) @@
     ("a" :> <<"a">>) @@
     ("relatorio" :> <<"r","e","l","a","t","o","r","i","o">>) @@
     ("" :> <<>>) @@
     (".PDF" :> <<".","P","D","F">>) @@
     ("?download=1" :> <<"?","d","o","w","n","l","o","a","d","=","1">>) @@
     ("?id=7" :> <<"?","i","d","=","7">>) @@
     ("?filename=x" :> <<"?","f","i","l","e","n","a","m","e","=","x">>) @@
     ("#topo" :> <<"#","t","o","p","o">>) @@
     ("www." :> <<"w","w","w",".">>) @@
     ("_" :> <<"_">>) @@
     ("." :> <<".">>) @@
     (".bin" :> <<".","b","i","n">>) @@
     ("text/html" :> <<"t","e","x","t","/","h","t","m","l">>) @@
     ("application/pdf" :> <<"a","p","p","l","i","c","a","t","i","o","n","/","p","d","f">>) @@
     ("excel" :> <<"e","x","c","e","l">>) @@
     ("spreadsheet" :> <<"s","p","r","e","a","d","s","h","e","e","t">>) @@
     ("word" :> <<"w","o","r","d">>) @@
     ("csv" :> <<"c","s","v">>) @@
     ("powerpoint" :> <<"p","o","w","e","r","p","o","i","n","t">>) @@
     ("presentation" :> <<"p","r","e","s","e","n","t","a","t","i","o","n">>) @@
     ("compressed" :> <<"c","o","m","p","r","e","s","s","e","d">>) @@
     ("attachment; filename=\"edital.pdf\"" :> <<"a","t","t","a","c","h","m","e","n","t",";"," ","f","i","l","e","n","a","m","e","=","\"","e","d","i","t","a","l",".","p","d","f","\"">>) @@
     ("https://www.imbel.gov.br/docs/a.pdf" :> <<"h","t","t","p","s",":","/","/","w","w","w",".","i","m","b","e","l",".","g","o","v",".","b","r","/","d","o","c","s","/","a",".","p","d","f">>) @@
     ("https://www.imbel.gov.br/download/relatorio" :> <<"h","t","t","p","s",":","/","/","w","w","w",".","i","m","b","e","l",".","g","o","v",".","b","r","/","d","o","w","n","l","o","a","d","/","r","e","l","a","t","o","r","i","o">>) @@
     ("https://www.imbel.gov.br/arquivos/" :> <<"h","t","t","p","s",":","/","/","w","w","w",".","i","m","b","e","l",".","g","o","v",".","b","r","/","a","r","q","u","i","v","o","s","/">>) @@
     ("https://www.imbel.gov.br/docs/a.pdf.pdf#pagina" :> <<"h","t","t","p","s",":","/","/","w","w","w",".","i","m","b","e","l",".","g","o","v",".","b","r","/","d","o","c","s","/","a",".","p","d","f",".","p","d","f","#","p","a","g","i","n","a">>) @@
     ("https://www.imbel.gov.br/docs/relatorio." :> <<"h","t","t","p","s",":","/","/","w","w","w",".","i","m","b","e","l",".","g","o","v",".","b","r","/","d","o","c","s","/","r","e","l","a","t","o","r","i","o",".">>) @@
     ("application/zip" :> <<"a","p","p","l","i","c","a","t","i","o","n","/","z","i","p">>) @@
     ("dados/" :> <<"d","a","d","o","s","/">>) @@
     ("dados/a.pdf" :> <<"d","a","d","o","s","/","a",".","p","d","f">>) @@
     ("a.pdf" :> <<"a",".","p","d","f">>) @@
     ("vazio.txt" :> <<"v","a","z","i","o",".","t","x","t">>) @@
     ("../fora.txt" :> <<".",".","/","f","o","r","a",".","t","x","t">>) @@
     ("b.zip" :> <<"b",".","z","i","p">>) @@
     ("pacote.zip" :> <<"p","a","c","o","t","e",".","z","i","p">>) @@
     ("https://www.imbel.gov.br/docs/b.zip" :> <<"h","t","t","p","s",":","/","/","w","w","w",".","i","m","b","e","l",".","g","o","v",".","b","r","/","d","o","c","s","/","b",".","z","i","p">>) @@
     ("http://www.ceitec-sa.com/download/2024/pacote.zip" :> <<"h","t","t","p",":","/","/","w","w","w",".","c","e","i","t","e","c","-","s","a",".","c","o","m","/","d","o","w","n","l","o","a","d","/","2","0","2","4","/","p","a","c","o","t","e",".","z","i","p">>) @@
     ("https://www.imbel.gov.br/" :> <<"h","t","t","p","s",":","/","/","w","w","w",".","i","m","b","e","l",".","g","o","v",".","b","r","/">>) @@
     ("http://www.ceitec-sa.com/" :> <<"h","t","t","p",":","/","/","w","w","w",".","c","e","i","t","e","c","-","s","a",".","c","o","m","/">>) @@
     ("https://www.telebras.com.br/" :> <<"h","t","t","p","s",":","/","/","w","w","w",".","t","e","l","e","b","r","a","s",".","c","o","m",".","b","r","/">>) @@
     ("sobre" :> <<"s","o","b","r","e">>) @@
     ("docs/a.pdf" :> <<"d","o","c","s","/","a",".","p","d","f">>) @@
     ("docs/b.zip" :> <<"d","o","c","s","/","b",".","z","i","p">>) @@
     ("download/relatorio" :> <<"d","o","w","n","l","o","a","d","/","r","e","l","a","t","o","r","i","o">>) @@
     ("transparencia" :> <<"t","r","a","n","s","p","a","r","e","n","c","i","a">>) @@
     ("relatorio.pdf" :> <<"r","e","l","a","t","o","r","i","o",".","p","d","f">>) @@
     ("https://www.imbel.gov.br/sobre" :> <<"h","t","t","p","s",":","/","/","w","w","w",".","i","m","b","e","l",".","g","o","v",".","b","r","/","s","o","b","r","e">>) @@
     ("http://www.ceitec-sa.com/sobre" :> <<"h","t","t","p",":","/","/","w","w","w",".","c","e","i","t","e","c","-","s","a",".","c","o","m","/","s","o","b","r","e">>) @@
     ("http://www.ceitec-sa.com/docs/a.pdf" :> <<"h","t","t","p",":","/","/","w","w","w",".","c","e","i","t","e","c","-","s","a",".","c","o","m","/","d","o","c","s","/","a",".","p","d","f">>) @@
     ("http://www.ceitec-sa.com/docs/b.zip" :> <<"h","t","t","p",":","/","/","w","w","w",".","c","e","i","t","e","c","-","s","a",".","c","o","m","/","d","o","c","s","/","b",".","z","i","p">>) @@
     ("http://www.ceitec-sa.com/download/relatorio" :> <<"h","t","t","p",":","/","/","w","w","w",".","c","e","i","t","e","c","-","s","a",".","c","o","m","/","d","o","w","n","l","o","a","d","/","r","e","l","a","t","o","r","i","o">>) @@
     ("https://www.telebras.com.br/sobre" :> <<"h","t","t","p","s",":","/","/","w","w","w",".","t","e","l","e","b","r","a","s",".","c","o","m",".","b","r","/","s","o","b","r","e">>) @@
     ("https://www.telebras.com.br/docs/a.pdf" :> <<"h","t","t","p","s",":","/","/","w","w","w",".","t","e","l","e","b","r","a","s",".","c","o","m",".","b","r","/","d","o","c","s","/","a",".","p","d","f">>) @@
     ("https://www.telebras.com.br/docs/b.zip" :> <<"h","t","t","p","s",":","/","/","w","w","w",".","t","e","l","e","b","r","a","s",".","c","o","m",".","b","r","/","d","o","c","s","/","b",".","z","i","p">>) @@
     ("https://www.telebras.com.br/download/relatorio" :> <<"h","t","t","p","s",":","/","/","w","w","w",".","t","e","l","e","b","r","a","s",".","c","o","m",".","b","r","/","d","o","w","n","l","o","a","d","/","r","e","l","a","t","o","r","i","o">>) @@
     ("HTTP://" :> <<"H","T","T","P",":","/","/">>) @@
     ("?ref=a.pdf" :> <<"?","r","e","f","=","a",".","p","d","f">>) @@
     ("www.imbel.gov.br" :> <<"w","w","w",".","i","m","b","e","l",".","g","o","v",".","b","r">>) @@
     ("blog.imbel.gov.br" :> <<"b","l","o","g",".","i","m","b","e","l",".","g","o","v",".","b","r">>) @@
     ("imbel.br" :> <<"i","m","b","e","l",".","b","r">>) @@
     ("/noticias" :> <<"/","n","o","t","i","c","i","a","s">>) @@
     ("/noticias/2024/123" :> <<"/","n","o","t","i","c","i","a","s","/","2","0","2","4","/","1","2","3">>) @@
     ("/42" :> <<"/","4","2">>) @@
     ("/v2" :> <<"/","v","2">>) @@
     ("/2024/noticias" :> <<"/","2","0","2","4","/","n","o","t","i","c","i","a","s">>) @@
     ("/noticias/2024-editais" :> <<"/","n","o","t","i","c","i","a","s","/","2","0","2","4","-","e","d","i","t","a","i","s">>) @@
     ("?p=1" :> <<"?","p","=","1">>) @@
     ("docs/c.pdf" :> <<"d","o","c","s","/","c",".","p","d","f">>) @@
     ("c.pdf" :> <<"c",".","p","d","f">>) @@
     ("https://www.imbel.gov.br/docs/c.pdf" :> <<"h","t","t","p","s",":","/","/","w","w","w",".","i","m","b","e","l",".","g","o","v",".","b","r","/","d","o","c","s","/","c",".","p","d","f">>) @@
     ("http://www.ceitec-sa.com/docs/c.pdf" :> <<"h","t","t","p",":","/","/","w","w","w",".","c","e","i","t","e","c","-","s","a",".","c","o","m","/","d","o","c","s","/","c",".","p","d","f">>) @@
     ("https://www.telebras.com.br/docs/c.pdf" :> <<"h","t","t","p","s",":","/","/","w","w","w",".","t","e","l","e","b","r","a","s",".","c","o","m",".","b","r","/","d","o","c","s","/","c",".","p","d","f">>) @@
     ("portal.gov.br]" :> <<"p","o","r","t","a","l",".","g","o","v",".","b","r","]">>) @@
     ("ftp://ftp.gov.br/a.pdf" :> <<"f","t","p",":","/","/","f","t","p",".","g","o","v",".","b","r","/","a",".","p","d","f">>)

Str(t) ==
    LET join[i \in 0..Len(t)] == IF i = 0 THEN "" ELSE join[i - 1] \o t[i]
    IN  join[Len(t)]

\* the text of a string given as the tuple of its parts (string literals)
Cat(parts) ==
    LET join[i \in 0..Len(parts)] == IF i = 0 THEN <<>> ELSE join[i - 1] \o Chars[parts[i]]
    IN  join[Len(parts)]

Take(s, n) == SubSeq(s, 1, n)

Drop(s, n) == SubSeq(s, n + 1, Len(s))

StartsWith(s, p) == Len(p) <= Len(s) /\ Take(s, Len(p)) = p

EndsWith(s, p) == Len(p) <= Len(s) /\ Drop(s, Len(s) - Len(p)) = p

Contains(s, p) == \E i \in 1..(Len(s) - Len(p) + 1) : SubSeq(s, i, i + Len(p) - 1) = p

\* str.find(c) for a single character, 1-based; 0 when absent
Find(s, c) ==
    IF \E i \in 1..Len(s) : s[i] = c
    THEN CHOOSE i \in 1..Len(s) : s[i] = c /\ \A j \in 1..(i - 1) : s[j] # c
    ELSE 0

\* index of the first character of s that is in cs; Len(s) + 1 when none is
FindAny(s, cs) ==
    IF \E i \in 1..Len(s) : s[i] \in cs
    THEN CHOOSE i \in 1..Len(s) : s[i] \in cs /\ \A j \in 1..(i - 1) : s[j] \notin cs
    ELSE Len(s) + 1

UpperCase == <<"A","B","C","D","E","F","G","H","I","J","K","L","M","N","O","P","Q","R","S","T","U","V","W","X","Y","Z">>

LowerCase == <<"a","b","c","d","e","f","g","h","i","j","k","l","m","n","o","p","q","r","s","t","u","v","w","x","y","z">>

Digits == {"0","1","2","3","4","5","6","7","8","9"}

Range(f) == {f[i] : i \in DOMAIN f}

LowerChar(c) ==
    IF c \in Range(UpperCase)
    THEN LowerCase[CHOOSE i \in 1..26 : UpperCase[i] = c]
    ELSE c

\* str.lower()
Lower(s) == [i \in 1..Len(s) |-> LowerChar(s[i])]

IsAlpha(c) == c \in Range(UpperCase) \cup Range(LowerCase)

SchemeChars == Range(UpperCase) \cup Range(LowerCase) \cup Digits \cup {"+", "-", "."}

\* urllib.parse.urlparse for URLs without ';' parameters
urlparse(url) ==
    LET i == Find(url, ":")
        hasScheme == i > 1 /\ IsAlpha(url[1]) /\ \A j \in 1..(i - 1) : url[j] \in SchemeChars
        r1 == IF hasScheme THEN Drop(url, i) ELSE url
        hasNet == StartsWith(r1, Chars["//"])
        r1b == Drop(r1, 2)
        d == FindAny(r1b, {"/", "?", "#"})
        r2 == IF hasNet THEN Drop(r1b, d - 1) ELSE r1
        h == Find(r2, "#")
        r3 == IF h > 0 THEN Take(r2, h - 1) ELSE r2
        q == Find(r3, "?")
    IN  [scheme |-> IF hasScheme THEN Lower(Take(url, i - 1)) ELSE <<>>,
         netloc |-> IF hasNet THEN Take(r1b, d - 1) ELSE <<>>,
         path |-> IF q > 0 THEN Take(r3, q - 1) ELSE r3,
         query |-> IF q > 0 THEN Drop(r3, q) ELSE <<>>,
         fragment |-> IF h > 0 THEN Drop(r2, h) ELSE <<>>]

\* urlparse raises ValueError (Invalid IPv6 URL) for a network location with
\* one square bracket and not the other
UrlparseRaises(url) ==
    LET netloc == urlparse(url).netloc
    IN  ("[" \in Range(netloc)) # ("]" \in Range(netloc))

(***************************************************************************)
(* URL classifier                                                          *)
(***************************************************************************)
DOCUMENT_EXTENSIONS ==
    <<".pdf", ".docx", ".doc", ".xlsx", ".xls", ".pptx", ".ppt",
      ".csv", ".zip", ".rar", ".7z", ".gz", ".tar", ".bz2", ".xz",
      ".odt", ".ods", ".odp", ".txt", ".rtf", ".epub", ".mobi",
      ".pub", ".vsd", ".msg", ".xml", ".json", ".jpg", ".jpeg",
      ".png", ".gif", ".mp3", ".mp4", ".wav">>

DOCUMENT_PATH_PATTERNS ==
    <<"/storage/", "/download/", "/arquivos/", "/documentos/",
      "/files/", "/attachments/", "/anexos/">>

WEB_PAGE_EXTENSIONS == <<".html", ".htm", ".php", ".asp", ".aspx", ".jsp">>

\* any(s.endswith(x) for x in xs)
EndsWithAny(s, xs) == \E i \in DOMAIN xs : EndsWith(s, Chars[xs[i]])

\* any(x in s for x in xs)
ContainsAny(s, xs) == \E i \in DOMAIN xs : Contains(s, Chars[xs[i]])

HasHttpScheme(url) == StartsWith(url, Chars["http://"]) \/ StartsWith(url, Chars["https://"])

\* a fault: the extensions are compared with the path as it was written
is_document_url_CaseSensitive(url) ==
    LET parsed_url == urlparse(url)
        path == parsed_url.path
        query == Lower(parsed_url.query)
        document_keywords == <<"download", "document", "file", "arquivo", "edital", "formulario", "anexo">>
    IN  IF url = <<>> THEN FALSE
        ELSE IF ~HasHttpScheme(url) THEN FALSE
        ELSE IF UrlparseRaises(url) THEN FALSE
        ELSE IF EndsWithAny(path, DOCUMENT_EXTENSIONS) THEN TRUE
        ELSE IF ContainsAny(path, DOCUMENT_PATH_PATTERNS)
                /\ ~EndsWithAny(path, WEB_PAGE_EXTENSIONS) THEN TRUE
        ELSE IF ContainsAny(query, <<"download=", "file=", "attachment=", "document=", "arquivo=">>) THEN TRUE
        ELSE IF ContainsAny(Lower(path), document_keywords) THEN TRUE
        ELSE FALSE

is_document_url(url) ==
    LET parsed_url == urlparse(url)
        path == Lower(parsed_url.path)
        query == Lower(parsed_url.query)
        document_keywords == <<"download", "document", "file", "arquivo", "edital", "formulario", "anexo">>
    IN  IF url = <<>> THEN FALSE
        ELSE IF ~HasHttpScheme(url) THEN FALSE
        ELSE IF UrlparseRaises(url) THEN FALSE
        ELSE IF EndsWithAny(path, DOCUMENT_EXTENSIONS) THEN TRUE
        ELSE IF ContainsAny(path, DOCUMENT_PATH_PATTERNS)
                /\ ~EndsWithAny(path, WEB_PAGE_EXTENSIONS) THEN TRUE
        ELSE IF ContainsAny(query, <<"download=", "file=", "attachment=", "document=", "arquivo=">>) THEN TRUE
        ELSE IF ContainsAny(Lower(path), document_keywords) THEN TRUE
        ELSE FALSE

is_definitely_document_url(url) ==
    LET parsed_url == urlparse(url)
        path == Lower(parsed_url.path)
        query == Lower(parsed_url.query)
        doc_patterns == <<"/download/", "/files/", "/docs/", "/documents/", "/documentos/",
                          "/arquivos/", "/anexos/", "/storage/">>
        doc_queries == <<"download=", "file=", "doc=", "document=", "attachment=", "filename=">>
    IN  IF url = <<>> THEN FALSE
        ELSE IF UrlparseRaises(url) THEN FALSE
        ELSE IF EndsWithAny(path, DOCUMENT_EXTENSIONS) THEN TRUE
        ELSE IF ContainsAny(path, doc_patterns)
                /\ \E i \in DOMAIN DOCUMENT_EXTENSIONS :
                      Contains(path, Drop(Chars[DOCUMENT_EXTENSIONS[i]], 1)) THEN TRUE
        ELSE IF ContainsAny(query, doc_queries) THEN TRUE
        ELSE FALSE

\* line 1272
doc_keywords == <<"pdf", "doc", "docx", "xls", "xlsx", "ppt", "pptx", "zip">>

\* lines 1245-1325, the decisions of should_process_url: "queue" (the URL is
\* a document: it is not navigated, and is appended to document_urls when
\* it is new), "reject" (neither navigated nor queued) or "pass".  The
\* filter calls urlparse itself at line 1265, after
\* is_definitely_document_url has returned: when that raises, the handler
\* of line 1323 returns False.
FilterVerdict(f) ==
    IF ~f.http THEN "reject"
    ELSE IF f.definitely THEN "queue"
    ELSE IF f.raises THEN "reject"
    ELSE IF f.extension \/ f.keyword THEN "queue"
    ELSE IF f.head_document THEN "queue"
    ELSE IF f.probable \/ f.document THEN "queue"
    ELSE IF f.known THEN "reject"
    ELSE "pass"

(***************************************************************************)
(* Classification of one URL: the URL is drawn from ClassifyInputs and the *)
(* two checks and the navigation filter are applied to it.                 *)
(***************************************************************************)
ClassifySchemes == {"http://", "https://", "ftp://", "HTTP://"}

ClassifyDirs == Range(DOCUMENT_PATH_PATTERNS) \cup {"/", "/docs/", "/noticias/"}

ClassifyNames == {"a", "relatorio"}

ClassifyExts == Range(WEB_PAGE_EXTENSIONS) \cup {"", ".pdf", ".zip", ".PDF"}

ClassifyQueries == {"", "?download=1", "?id=7", "?filename=x", "?ref=a.pdf"}

\* a URL of the classifier's inputs is kept as the tuple of its parts
\* (scheme, host, directory, name, extension, query); Cat gives its text
ClassifyHosts == {"portal.gov.br", "portal.gov.br]"}

ClassifyInputs ==
    {<<s, h, d, n, e, q>> :
        s \in ClassifySchemes, h \in ClassifyHosts, d \in ClassifyDirs, n \in ClassifyNames,
        e \in ClassifyExts, q \in ClassifyQueries}

ClassifyIdle == cl_pc = "idle" /\ cl_url = <<>> /\ cl_doc = FALSE /\ cl_def = FALSE /\ cl_nav = ""

ClassifyInit ==
    /\ cl_url \in ClassifyInputs
    /\ cl_pc = "input"
    /\ cl_doc = FALSE
    /\ cl_def = FALSE
    /\ cl_nav = ""

\* what should_process_url answers for a URL that the run does not know yet,
\* in a run without skip_browser
FilterOf(url) ==
    FilterVerdict([http |-> HasHttpScheme(url),
                   raises |-> UrlparseRaises(url),
                   definitely |-> is_definitely_document_url(url),
                   extension |-> EndsWithAny(Lower(urlparse(url).path), DOCUMENT_EXTENSIONS),
                   keyword |-> ContainsAny(Lower(urlparse(url).path), doc_keywords),
                   head_document |-> FALSE,
                   probable |-> FALSE,
                   document |-> is_document_url(url),
                   known |-> FALSE])

Classify ==
    /\ cl_pc = "input"
    /\ cl_doc' = is_document_url(Cat(cl_url))
    /\ cl_def' = is_definitely_document_url(Cat(cl_url))
    /\ cl_nav' = FilterOf(Cat(cl_url))
    /\ cl_pc' = "classified"
    /\ UNCHANGED cl_url

(***************************************************************************)
(* File names                                                              *)
(***************************************************************************)
\* index of the last occurrence of character c in s; 0 when absent
RFind(s, c) ==
    IF \E i \in 1..Len(s) : s[i] = c
    THEN CHOOSE i \in 1..Len(s) : s[i] = c /\ \A j \in (i + 1)..Len(s) : s[j] # c
    ELSE 0

\* os.path.basename
basename(p) == Drop(p, RFind(p, "/"))

\* os.path.splitext: the extension starts at the last dot of the last
\* component, unless only dots precede it there
splitext(p) ==
    LET sep == RFind(p, "/")
        dot == RFind(p, ".")
        hasExt == dot > sep /\ \E j \in (sep + 1)..(dot - 1) : p[j] # "."
    IN  IF hasExt THEN <<Take(p, dot - 1), Drop(p, dot - 1)>> ELSE <<p, <<>>>>

\* str.lstrip('.')
lstrip_dot(s) ==
    LET dots == {i \in 0..Len(s) : \A j \in 1..i : s[j] = "."}
    IN  Drop(s, CHOOSE i \in dots : \A k \in dots : k <= i)

\* str.replace(old, new): every non-overlapping occurrence, left to right
\* (rest[i] is the result for s[i:]; old is not empty)
Replace(s, old, new) ==
    LET rest[i \in 1..(Len(s) + 1)] ==
            IF i > Len(s) THEN <<>>
            ELSE IF StartsWith(Drop(s, i - 1), old) THEN new \o rest[i + Len(old)]
            ELSE <<s[i]>> \o rest[i + 1]
    IN  rest[1]

\* re.sub(r'[\\/*?:"<>|]', '_', name)
InvalidFilenameChars == {"\\", "/", "*", "?", ":", "\"", "<", ">", "|"}

SubInvalid(name) == [i \in 1..Len(name) |-> IF name[i] \in InvalidFilenameChars THEN "_" ELSE name[i]]

\* re.sub(r'https?://(www\.)?', '', url)
\* (rest[i] is the result for s[i:])
RemoveSchemes(s) ==
    LET Match(t) ==
            LET m == IF StartsWith(t, Chars["https://"]) THEN Len(Chars["https://"])
                     ELSE IF StartsWith(t, Chars["http://"]) THEN Len(Chars["http://"]) ELSE 0
            IN  IF m > 0 /\ StartsWith(Drop(t, m), Chars["www."]) THEN m + Len(Chars["www."]) ELSE m
        rest[i \in 1..(Len(s) + 1)] ==
            IF i > Len(s) THEN <<>>
            ELSE IF Match(Drop(s, i - 1)) > 0 THEN rest[i + Match(Drop(s, i - 1))]
            ELSE <<s[i]>> \o rest[i + 1]
    IN  rest[1]

MaxSanitizedLen == 100

sanitize_filename(url) ==
    LET name == Replace(Replace(SubInvalid(RemoveSchemes(url)), Chars["/"], Chars["_"]), Chars["."], Chars["_"])
    IN  IF Len(name) > MaxSanitizedLen THEN Take(name, MaxSanitizedLen) ELSE name

MaxFilenameLen == 100

MaxExtensionLen == 10

\* guess_file_extension: the URL's extension, else the MIME table, else .bin
\* (mimetypes.guess_extension for the content types of the model)
guess_file_extension(content_type, url) ==
    LET ext == splitext(urlparse(url).path)[2]
    IN  IF ext # <<>> /\ Len(ext) < MaxExtensionLen THEN ext
        ELSE IF content_type = "application/pdf" THEN Chars[".pdf"]
        ELSE IF content_type = "application/zip" THEN Chars[".zip"]
        ELSE IF content_type = "text/html" THEN Chars[".html"]
        ELSE Chars[".bin"]

(***************************************************************************)
(* Document downloader (download_document).  One call is a sequence of     *)
(* steps, one per network answer: the header probe, the GET and each read  *)
(* of the body.  The disk (file name -> size) outlives the call.           *)
(***************************************************************************)
MAX_RETRIES == 3

MaxCalls == 2

MaxChunks == 1

DownloadInputs ==
    {"https://www.imbel.gov.br/docs/a.pdf",
     "https://www.imbel.gov.br/download/relatorio",
     "https://www.imbel.gov.br/docs/relatorio.",
     "https://www.imbel.gov.br/arquivos/",
     "https://www.imbel.gov.br/docs/a.pdf.pdf#pagina",
     "#topo"}

HeadOutcomes ==
    {[kind |-> "raise"]} \cup [kind : {"status"}, status : {200, 404, 500}]

ContentTypes == {"application/pdf", "application/zip", "text/html"}

ContentDispositions == {"", "attachment; filename=\"edital.pdf\""}

GetOutcomes ==
    [kind : {"raise"}, exc : {"TimeoutError", "ClientError", "Exception"}]
    \cup [kind : {"status"}, status : {404, 500}]
    \cup [kind : {"ok"}, content_type : ContentTypes, content_disposition : ContentDispositions]

ChunkOutcomes == {"data", "eof", "chunk_timeout", "error"}

Failure == [success |-> FALSE, local_path |-> "", file_type |-> ""]

\* url.split('#')[0]
BeforeFragment(url) == IF Find(url, "#") > 0 THEN Take(url, Find(url, "#") - 1) ELSE url

\* lines 697-701: for each extension in turn, ext+ext is replaced by ext when
\* the lower-cased URL contains it
CollapseOne(clean_url, ext) ==
    IF Contains(Lower(clean_url), ext \o ext)
    THEN Replace(clean_url, ext \o ext, ext)
    ELSE clean_url

\* the loop of lines 699-701 (step[i] is clean_url after i extensions; the
\* singleton set binds the value of the previous step once)
CollapseDoubled(clean_url) ==
    LET step[i \in 0..Len(DOCUMENT_EXTENSIONS)] ==
            IF i = 0 THEN clean_url
            ELSE CHOOSE next \in {CollapseOne(prev, Chars[DOCUMENT_EXTENSIONS[i]]) :
                                   prev \in {step[i - 1]}} : TRUE
    IN  step[Len(DOCUMENT_EXTENSIONS)]

\* lines 687-701: the URL that is requested (the test of line 698 is the
\* disjunction of the tests of line 700)
CleanUrl(url) == CollapseDoubled(BeforeFragment(url))

\* lines 703-718: the file name derived from the URL (path is
\* parsed_url.path, of the url as it was given)
UrlFilename(path, clean_url) ==
    LET original_filename == basename(path)
        original_extension == splitext(path)[2]
    IN  SubInvalid(
            IF original_filename # <<>> /\ Len(original_filename) < MaxFilenameLen
               /\ ~EndsWith(original_filename, Chars["/"])
            THEN original_filename
            ELSE IF original_extension # <<>> /\ Len(original_extension) < MaxExtensionLen
            THEN sanitize_filename(clean_url) \o original_extension
            ELSE sanitize_filename(clean_url) \o Chars[".bin"])

\* re.findall('filename=["\'](.*?)["\']', content_disposition)[0]; <<>> when
\* the header has no quoted file name
CdFilename(cd) ==
    LET key == Chars["filename="]
        at == IF Contains(cd, key)
              THEN CHOOSE i \in 1..Len(cd) :
                     /\ SubSeq(cd, i, i + Len(key) - 1) = key
                     /\ \A j \in 1..(i - 1) : SubSeq(cd, j, j + Len(key) - 1) # key
              ELSE 0
        rest == Drop(cd, at + Len(key) - 1)
        quoted == at > 0 /\ rest # <<>> /\ Head(rest) \in {"\"", "'"}
        body == Tail(rest)
        close == FindAny(body, {"\"", "'"})
    IN  IF quoted /\ close <= Len(body) THEN Take(body, close - 1) ELSE <<>>

\* lines 784-802: the file name after the response headers were read
ResponseFilename(filename, url, content_type, content_disposition) ==
    LET new_filename == CdFilename(Chars[content_disposition])
        named == IF new_filename # <<>> /\ Len(new_filename) < MaxFilenameLen
                 THEN new_filename ELSE filename
    IN  IF EndsWith(named, Chars[".bin"]) \/ ~Contains(named, Chars["."])
        THEN splitext(named)[1] \o guess_file_extension(content_type, url)
        ELSE named

\* lines 722-727: file type of a file that is already on disk
ExistingFileType(filename) ==
    LET file_extension == lstrip_dot(splitext(filename)[2])
    IN  IF file_extension = <<>> THEN "documento" ELSE Str(file_extension)

\* a fault: the content type is looked at before the extension
FileType_ContentTypeFirst(filename, content_type) ==
    LET file_extension == lstrip_dot(splitext(filename)[2])
        ct == Chars[content_type]
    IN  IF Contains(ct, Chars["pdf"]) THEN "pdf"
        ELSE IF Contains(ct, Chars["zip"]) \/ Contains(ct, Chars["compressed"]) THEN "arquivo_compactado"
        ELSE IF file_extension # <<>> THEN Str(file_extension)
        ELSE "documento"

\* lines 873-893: file type of a downloaded file
FileType(filename, content_type) ==
    LET file_extension == lstrip_dot(splitext(filename)[2])
        ct == Chars[content_type]
    IN  IF file_extension # <<>> THEN Str(file_extension)
        ELSE IF Contains(ct, Chars["pdf"]) THEN "pdf"
        ELSE IF Contains(ct, Chars["excel"]) \/ Contains(ct, Chars["spreadsheet"]) THEN "excel"
        ELSE IF Contains(ct, Chars["word"]) THEN "word"
        ELSE IF Contains(ct, Chars["csv"]) THEN "csv"
        ELSE IF Contains(ct, Chars["powerpoint"]) \/ Contains(ct, Chars["presentation"]) THEN "powerpoint"
        ELSE IF Contains(ct, Chars["zip"]) \/ Contains(ct, Chars["compressed"]) THEN "arquivo_compactado"
        ELSE "documento"

\* line 723: os.path.exists(local_path)
FileExists(files, name) == name \in DOMAIN files

\* os.remove(local_path)
RemoveFile(files, name) == [n \in DOMAIN files \ {name} |-> files[n]]

\* open(local_path, 'wb') and f.write(chunk)
WriteFile(files, name, size) == [n \in DOMAIN files \cup {name} |-> IF n = name THEN size ELSE files[n]]

\* The values download_document computes from its url argument and from the
\* response headers, for every input of the model: sets of <<key, value>>.
Lookup(table, key) == (CHOOSE entry \in table : entry[1] = key)[2]

CleanUrls == {<<u, CleanUrl(Chars[u])>> : u \in DownloadInputs}

\* lines 684-727: what the call derives from its url argument
UrlName(url, clean_url, filename) ==
    [clean_url |-> Str(clean_url),
     fragment_only |-> Find(url, "#") > 0 /\ BeforeFragment(url) = <<>>,
     filename |-> filename,
     local_path |-> Str(filename),
     file_type |-> ExistingFileType(filename)]

UrlNames ==
    {<<u, UrlName(Chars[u], Lookup(CleanUrls, u),
                  UrlFilename(urlparse(Chars[u]).path, Lookup(CleanUrls, u)))>> :
        u \in DownloadInputs}

\* lines 774-802 and 873-893: what the call derives from the response
\* headers.  rejected: an HTML response for a file name without a document
\* extension (line 779)
ResponseName(filename, final_filename, content_type) ==
    [rejected |-> /\ Contains(Chars[content_type], Chars["text/html"])
                  /\ ~ContainsAny(Lower(filename), DOCUMENT_EXTENSIONS),
     filename |-> final_filename,
     local_path |-> Str(final_filename),
     file_type |-> FileType(final_filename, content_type)]

ResponseNames ==
    {<<<<u, ct, cd>>,
       ResponseName(Lookup(UrlNames, u).filename,
                    ResponseFilename(Lookup(UrlNames, u).filename, Chars[u], ct, cd), ct)>> :
        u \in DownloadInputs, ct \in ContentTypes, cd \in ContentDispositions}

NoEvent == [attempt |-> 0, on |-> "", status |-> 0, what |-> ""]

\* how an attempt ended: the number of the attempt (from 1), the request that
\* ended it ("head", "get", or "body" for the reads of the body), the HTTP
\* status when there was one, and what happened
DlEvent(on, status, what) == [attempt |-> attempt + 1, on |-> on, status |-> status, what |-> what]

dlvars == <<dl_url, dl_pc, dl_clean_url, attempt, dl_filename, dl_response, content_size, disk,
            dl_net, dl_sleeps, dl_last, dl_result, dl_calls, dl_disk0, dl_existed>>

NoResponse == [content_type |-> "", content_disposition |-> ""]

DownloadIdle ==
    /\ dl_url = "" /\ dl_pc = "idle" /\ dl_clean_url = "" /\ attempt = 0 /\ dl_filename = ""
    /\ dl_response = NoResponse /\ content_size = 0 /\ disk = <<>>
    /\ dl_net = <<>> /\ dl_sleeps = <<>> /\ dl_last = NoEvent
    /\ dl_result = Failure /\ dl_calls = 0 /\ dl_disk0 = <<>> /\ dl_existed = FALSE

DlReturn(result) ==
    /\ dl_pc' = "done"
    /\ dl_result' = result

\* a fault: a failed attempt is never followed by another one
DlNextAttempt_GivesUp(slept) ==
    /\ DlReturn(Failure)
    /\ dl_sleeps' = IF slept THEN Append(dl_sleeps, 2 * (attempt + 1)) ELSE dl_sleeps
    /\ UNCHANGED attempt

\* the end of a failed attempt.  slept: the handler sleeps 2 * (attempt + 1)
\* seconds before it looks at the attempts that remain (line 771); the other
\* handlers sleep only when an attempt remains.
DlNextAttempt(slept) ==
    IF attempt < MAX_RETRIES - 1
    THEN /\ attempt' = attempt + 1
         /\ dl_pc' = "head"
         /\ dl_sleeps' = Append(dl_sleeps, 2 * (attempt + 1))
         /\ UNCHANGED dl_result
    ELSE /\ DlReturn(Failure)
         /\ dl_sleeps' = IF slept THEN Append(dl_sleeps, 2 * (attempt + 1)) ELSE dl_sleeps
         /\ UNCHANGED attempt

\* a fault: the call without the test of line 723
DlCall_NoExistsCheck(u) ==
    \E name \in {Lookup(UrlNames, u)} :
        /\ dl_pc \in {"idle", "done", "cancelled"}
        /\ dl_calls < MaxCalls
        /\ dl_calls' = dl_calls + 1
        /\ dl_url' = u
        /\ dl_disk0' = disk
        /\ attempt' = 0
        /\ content_size' = 0
        /\ dl_response' = NoResponse
        /\ dl_net' = <<>>
        /\ dl_sleeps' = <<>>
        /\ dl_last' = NoEvent
        /\ UNCHANGED disk
        /\ IF name.fragment_only
           THEN /\ DlReturn(Failure)
                /\ dl_clean_url' = ""
                /\ dl_filename' = ""
                /\ dl_existed' = FALSE
           ELSE /\ dl_clean_url' = name.clean_url
                /\ dl_filename' = name.local_path
                /\ dl_existed' = FileExists(disk, name.local_path)
                /\ dl_pc' = "head"
                /\ UNCHANGED dl_result

\* lines 680-727: the call up to the retry loop
DlCall(u) ==
    \E name \in {Lookup(UrlNames, u)} :
        /\ dl_pc \in {"idle", "done", "cancelled"}
        /\ dl_calls < MaxCalls
        /\ dl_calls' = dl_calls + 1
        /\ dl_url' = u
        /\ dl_disk0' = disk
        /\ attempt' = 0
        /\ content_size' = 0
        /\ dl_response' = NoResponse
        /\ dl_net' = <<>>
        /\ dl_sleeps' = <<>>
        /\ dl_last' = NoEvent
        /\ UNCHANGED disk
        /\ IF name.fragment_only
           THEN /\ DlReturn(Failure)
                /\ dl_clean_url' = ""
                /\ dl_filename' = ""
                /\ dl_existed' = FALSE
           ELSE /\ dl_clean_url' = name.clean_url
                /\ dl_filename' = name.local_path
                /\ dl_existed' = FileExists(disk, name.local_path)
                /\ IF FileExists(disk, name.local_path)
                   THEN DlReturn([success |-> TRUE, local_path |-> name.local_path,
                                  file_type |-> name.file_type])
                   ELSE /\ dl_pc' = "head"
                        /\ UNCHANGED dl_result

\* lines 747-759: the header probe
DlHead(r) ==
    /\ dl_pc = "head"
    /\ dl_net' = Append(dl_net, <<"HEAD", dl_clean_url>>)
    /\ IF r.kind = "status" /\ r.status >= 400
       THEN /\ DlReturn(Failure)
            /\ dl_last' = DlEvent("head", r.status, "status")
       ELSE /\ dl_pc' = "get"
            /\ UNCHANGED <<dl_result, dl_last>>
    /\ UNCHANGED <<dl_url, dl_clean_url, attempt, dl_filename, dl_response, content_size, disk,
                   dl_sleeps, dl_calls, dl_disk0, dl_existed>>

\* lines 761-808 and 897-918: the GET, its status and its headers
DlGet(r) ==
    /\ dl_pc = "get"
    /\ dl_net' = Append(dl_net, <<"GET", dl_clean_url>>)
    /\ UNCHANGED <<dl_url, dl_clean_url, dl_calls, dl_disk0, dl_existed>>
    /\ content_size' = 0
    /\ CASE r.kind = "raise" ->
              /\ dl_last' = DlEvent("get", 0, r.exc)
              /\ DlNextAttempt(FALSE)
              /\ UNCHANGED <<dl_filename, dl_response, disk>>
         [] r.kind = "status" /\ r.status = 404 ->
              /\ dl_last' = DlEvent("get", r.status, "status")
              /\ DlReturn(Failure)
              /\ UNCHANGED <<attempt, dl_sleeps, dl_filename, dl_response, disk>>
         [] r.kind = "status" /\ r.status # 404 ->
              /\ dl_last' = DlEvent("get", r.status, "status")
              /\ DlNextAttempt(TRUE)
              /\ UNCHANGED <<dl_filename, dl_response, disk>>
         [] r.kind = "ok" ->
              \E name \in {Lookup(ResponseNames, <<dl_url, r.content_type, r.content_disposition>>)} :
                  /\ dl_response' = [content_type |-> r.content_type,
                                     content_disposition |-> r.content_disposition]
                  /\ IF name.rejected
                     THEN /\ dl_last' = DlEvent("get", 200, "text/html")
                          /\ DlReturn(Failure)
                          /\ UNCHANGED <<attempt, dl_sleeps, dl_filename, disk>>
                     ELSE /\ dl_filename' = name.local_path
                          /\ disk' = WriteFile(disk, name.local_path, 0)
                          /\ dl_pc' = "stream"
                          /\ UNCHANGED <<attempt, dl_sleeps, dl_last, dl_result>>

\* lines 859-895: the check of the file that was written, and the result
DlValidate(what) ==
    IF ~FileExists(disk, dl_filename) \/ disk[dl_filename] = 0
    THEN /\ disk' = RemoveFile(disk, dl_filename)
         /\ dl_last' = DlEvent("body", 200, "empty")
         /\ DlNextAttempt(FALSE)
    ELSE /\ dl_last' = DlEvent("body", 200, what)
         /\ DlReturn([success |-> TRUE, local_path |-> dl_filename,
                      file_type |-> Lookup(ResponseNames,
                                           <<dl_url, dl_response.content_type,
                                             dl_response.content_disposition>>).file_type])
         /\ UNCHANGED <<attempt, dl_sleeps, disk>>

\* lines 810-857: one read of the body.  "error" is any exception of the
\* read or of the write, the total DOWNLOAD_TIMEOUT of line 820 included;
\* a read that times out before any byte was written raises as well (line
\* 837).  The handler of line 844 keeps a file that has content.
DlChunk(ev) ==
    /\ dl_pc = "stream"
    /\ UNCHANGED <<dl_url, dl_clean_url, dl_filename, dl_response, dl_net, dl_calls, dl_disk0,
                   dl_existed>>
    /\ IF ev = "data"
       THEN /\ content_size < MaxChunks
            /\ content_size' = content_size + 1
            /\ disk' = WriteFile(disk, dl_filename, disk[dl_filename] + 1)
            /\ UNCHANGED <<dl_pc, attempt, dl_sleeps, dl_last, dl_result>>
       ELSE /\ UNCHANGED content_size
            /\ LET raised == ev = "error" \/ (ev = "chunk_timeout" /\ content_size = 0)
                   kept == content_size > 0 /\ FileExists(disk, dl_filename)
                           /\ disk[dl_filename] > 0
               IN  IF raised /\ ~kept
                   THEN /\ disk' = RemoveFile(disk, dl_filename)
                        /\ dl_last' = DlEvent("body", 200, ev)
                        /\ DlNextAttempt(FALSE)
                   ELSE DlValidate(IF ev = "eof" THEN "ok"
                                   ELSE IF ev = "chunk_timeout" THEN "partial_timeout"
                                   ELSE "partial")

\* lines 1555-1561: the wait_for of the batch times out and cancels the
\* task of the call, or the program is interrupted, while the call awaits
\* an answer or the body.  CancelledError is not an Exception: no handler of
\* download_document runs, and the file stays as it was written so far.
DlCancel ==
    /\ dl_pc \in {"head", "get", "stream"}
    /\ dl_pc' = "cancelled"
    /\ dl_last' = DlEvent(IF dl_pc = "stream" THEN "body" ELSE dl_pc, 0, "CancelledError")
    /\ UNCHANGED <<dl_url, dl_clean_url, attempt, dl_filename, dl_response, content_size, disk,
                   dl_net, dl_sleeps, dl_result, dl_calls, dl_disk0, dl_existed>>
(***************************************************************************)
(* Tags                                                                    *)
(***************************************************************************)
\* re.search(r'\d', s)
HasDigit(s) == \E i \in 1..Len(s) : s[i] \in Digits

\* re.sub(r'\d+', '', s)
RemoveDigits(s) == SelectSeq(s, LAMBDA c : c \notin Digits)

\* str.strip(cs)
Strip(s, cs) ==
    LET kept == {i \in 1..Len(s) : s[i] \notin cs}
    IN  IF kept = {} THEN <<>>
        ELSE SubSeq(s, CHOOSE i \in kept : \A k \in kept : i <= k,
                       CHOOSE i \in kept : \A k \in kept : k <= i)

\* one character of str.split(sep), the empty parts dropped
SplitStep(acc, ch, sep) ==
    IF ch = sep
    THEN [parts |-> IF acc.part = <<>> THEN acc.parts ELSE Append(acc.parts, acc.part),
          part |-> <<>>]
    ELSE [parts |-> acc.parts, part |-> Append(acc.part, ch)]

\* [p for p in s.split(sep) if p]
SplitNonEmpty(s, sep) ==
    LET scan[i \in 0..Len(s)] ==
            IF i = 0 THEN [parts |-> <<>>, part |-> <<>>]
            ELSE CHOOSE next \in {SplitStep(acc, s[i], sep) : acc \in {scan[i - 1]}} : TRUE
    IN  CHOOSE parts \in {SplitStep(acc, sep, sep).parts : acc \in {scan[Len(s)]}} : TRUE

\* the index of the last character of a match of https?://[^/]+/ that
\* starts at s[i]; 0 when there is none
OriginEnd(s, i) ==
    LET from == SubSeq(s, i, Len(s))
        j == IF StartsWith(from, Chars["https://"]) THEN i + 8
             ELSE IF StartsWith(from, Chars["http://"]) THEN i + 7
             ELSE 0
        slashes == {k \in j..Len(s) : s[k] = "/"}
    IN  IF j = 0 \/ slashes = {} \/ j \in slashes THEN 0
        ELSE CHOOSE k \in slashes : \A m \in slashes : k <= m

\* re.sub(r'https?://[^/]+/', '', s)
RemoveOrigins(s) ==
    LET rest[i \in 1..(Len(s) + 1)] ==
            IF i > Len(s) THEN <<>>
            ELSE IF OriginEnd(s, i) > 0 THEN rest[OriginEnd(s, i) + 1]
            ELSE <<s[i]>> \o rest[i + 1]
    IN  rest[1]

\* re.sub(r'[?#].*$', '', s)
RemoveQuery(s) == Take(s, FindAny(s, {"?", "#"}) - 1)

\* lines 362-374: one part of the path
TagStep(processed_tags, part) ==
    IF HasDigit(part)
    THEN IF \E i \in 1..Len(processed_tags) : ~HasDigit(processed_tags[i])
         THEN processed_tags
         ELSE IF Strip(RemoveDigits(part), {",", ".", "-", "_"}) # <<>>
         THEN Append(processed_tags, Strip(RemoveDigits(part), {",", ".", "-", "_"}))
         ELSE processed_tags
    ELSE Append(processed_tags, part)

\* lines 362-376: the loop over the parts
TagLoop(parts) ==
    LET loop[i \in 0..Len(parts)] ==
            IF i = 0 THEN <<>>
            ELSE CHOOSE next \in {TagStep(tags, parts[i]) : tags \in {loop[i - 1]}} : TRUE
    IN  loop[Len(parts)]

\* the tags of a URL, as texts
extract_path_tags(url) ==
    CHOOSE tags \in
        {[i \in 1..Len(processed_tags) |-> Str(processed_tags[i])] :
            processed_tags \in {TagLoop(parts) :
                parts \in {SplitNonEmpty(RemoveQuery(path), "/") :
                    path \in {RemoveOrigins(url)}}}} : TRUE

\* re.sub(r'https?://', '', s)
\* (rest[i] is the result for s[i:])
RemoveSchemePrefixes(s) ==
    LET Match(t) == IF StartsWith(t, Chars["https://"]) THEN Len(Chars["https://"])
                    ELSE IF StartsWith(t, Chars["http://"]) THEN Len(Chars["http://"]) ELSE 0
        rest[i \in 1..(Len(s) + 1)] ==
            IF i > Len(s) THEN <<>>
            ELSE IF Match(Drop(s, i - 1)) > 0 THEN rest[i + Match(Drop(s, i - 1))]
            ELSE <<s[i]>> \o rest[i + 1]
    IN  rest[1]

\* the parts of s.split('.'), the empty ones included
SplitDots(s) ==
    LET dots == {i \in 1..Len(s) : s[i] = "."}
        first == IF dots = {} THEN Len(s) + 1 ELSE CHOOSE i \in dots : \A k \in dots : i <= k
    IN  [count |-> Cardinality(dots) + 1, first |-> Take(s, first - 1)]

extract_subdomain(url) ==
    CHOOSE sub \in
        {IF split.count > 2 THEN Str(split.first) ELSE "" :
            split \in {SplitDots(s) : s \in {RemoveSchemePrefixes(url)}}} : TRUE

get_file_type(file_path) ==
    CHOOSE file_type \in
        {CASE ext = ".pdf" -> "pdf"
           [] ext \in {".docx", ".doc"} -> "word"
           [] ext \in {".xlsx", ".xls"} -> "excel"
           [] ext \in {".pptx", ".ppt"} -> "powerpoint"
           [] ext = ".csv" -> "csv"
           [] ext \in {".zip", ".rar", ".7z", ".gz", ".tar", ".bz2", ".xz"} -> "arquivo_compactado"
           [] ext \in {".jpg", ".jpeg", ".png", ".gif", ".bmp", ".svg"} -> "imagem"
           [] ext \in {".mp4", ".avi", ".mov", ".wmv", ".flv", ".webm"} -> "video"
           [] ext \in {".mp3", ".wav", ".ogg", ".flac", ".aac"} -> "audio"
           [] ext = ".txt" -> "texto"
           [] ext \in {".html", ".htm"} -> "html"
           [] OTHER -> "documento" :
            ext \in {Str(splitext(Lower(file_path))[2])}} : TRUE

(***************************************************************************)
(* extract_zip_file                                                        *)
(***************************************************************************)
\* Python None, SQL NULL
None == "None"

\* the largest number of entries of an archive
MaxEntries == 3

\* an entry of an archive: its name in namelist(), the size of the extracted
\* file, and whether extractall left a file at extract_dir/name (it does not
\* for a name that zipfile rewrites, such as one with a '..' component)
ZipEntries ==
    {[item |-> "dados/", size |-> 0, placed |-> TRUE],
     [item |-> "dados/a.pdf", size |-> 10, placed |-> TRUE],
     [item |-> "a.pdf", size |-> 20, placed |-> TRUE],
     [item |-> "vazio.txt", size |-> 0, placed |-> TRUE],
     [item |-> "../fora.txt", size |-> 10, placed |-> FALSE]}

\* valid is false for a file that zipfile.ZipFile rejects (BadZipFile)
ZipArchives ==
    {[valid |-> FALSE, entries |-> <<>>]} \cup
    {[valid |-> TRUE, entries |-> entries] :
        entries \in UNION {[1..n -> ZipEntries] : n \in 0..MaxEntries}}

\* the archives of the model with their parent_url
ZipInputs ==
    {[zip_path |-> "b.zip", parent_url |-> "https://www.imbel.gov.br/docs/b.zip"],
     [zip_path |-> "pacote.zip", parent_url |-> "http://www.ceitec-sa.com/download/2024/pacote.zip"]}

\* a cursor: the rows its open transaction has inserted, and whether a
\* statement has failed in it (every later statement then fails as well)
NewCursor == [rows |-> <<>>, aborted |-> FALSE]

\* lines 944-951
ZipTags(url) ==
    CHOOSE zip_tags \in
        {IF \E i \in 1..Len(tags) : tags[i] = "arquivo_compactado"
         THEN tags ELSE Append(tags, "arquivo_compactado") :
            tags \in {extract_path_tags(url)}} : TRUE

\* lines 990-1033: the row of an entry
ExtractedRow(entry, call) ==
    CHOOSE row \in
        {[content |-> [title |-> "Arquivo extraido", filename |-> filename, file_type |-> file_type],
          link |-> call.parent_url \o "#extracted/" \o call.zip_uuid \o "/" \o filename,
          local_path |-> call.zip_specific_dir \o "/" \o filename,
          tags |-> call.zip_tags \o <<"extraido_de_zip", file_type>>,
          parent_document |-> call.parent_url] :
            filename \in {Str(basename(Chars[entry.item]))},
            file_type \in {get_file_type(Chars[entry.item])}} : TRUE

\* a fault: entries of size zero are recorded as well
ZipEntryStep_KeepsEmpty(acc, entry, i, call) ==
    IF acc.raised \/ EndsWith(Chars[entry.item], Chars["/"]) \/ ~entry.placed
    THEN acc
    ELSE IF call.copy_error_at = i
    THEN [acc EXCEPT !.raised = TRUE]
    ELSE IF acc.cur.aborted \/ call.db_error_at = i
    THEN [acc EXCEPT !.cur.aborted = TRUE]
    ELSE [acc EXCEPT !.cur.rows = Append(@, ExtractedRow(entry, call)),
                     !.extracted_files = Append(@, ExtractedRow(entry, call).local_path)]

\* lines 971-1041: one pass of the loop over zip_contents
ZipEntryStep(acc, entry, i, call) ==
    IF acc.raised \/ EndsWith(Chars[entry.item], Chars["/"]) \/ ~entry.placed \/ entry.size = 0
    THEN acc
    ELSE IF call.copy_error_at = i
    THEN [acc EXCEPT !.raised = TRUE]
    ELSE IF acc.cur.aborted \/ call.db_error_at = i
    THEN [acc EXCEPT !.cur.aborted = TRUE]
    ELSE [acc EXCEPT !.cur.rows = Append(@, ExtractedRow(entry, call)),
                     !.extracted_files = Append(@, ExtractedRow(entry, call).local_path)]

ZipLoop(entries, cur, call) ==
    LET loop[i \in 0..Len(entries)] ==
            IF i = 0 THEN [cur |-> cur, extracted_files |-> <<>>, raised |-> FALSE]
            ELSE CHOOSE next \in {ZipEntryStep(acc, entries[i], i, call) : acc \in {loop[i - 1]}} : TRUE
    IN  loop[Len(entries)]

\* The cursor and the returned list after extract_zip_file.  faults names
\* the entry at which shutil.copy2 raises and the entry at which the INSERT
\* raises (0: none).
extract_zip_file(archive, zip_path, cur, url, zip_uuid, faults) ==
    IF ~archive.valid
    THEN [cur |-> cur, extracted_files |-> <<>>]
    ELSE CHOOSE result \in
        {[cur |-> end.cur,
          extracted_files |-> IF end.raised THEN <<>> ELSE end.extracted_files] :
            end \in {ZipLoop(archive.entries, cur, call) :
                call \in {[parent_url |-> url,
                           zip_uuid |-> zip_uuid,
                           zip_specific_dir |-> Str(Replace(basename(Chars[zip_path]), Chars[".zip"], <<>>)),
                           zip_tags |-> ZipTags(Chars[url]),
                           copy_error_at |-> faults.copy_error_at,
                           db_error_at |-> faults.db_error_at]}}} : TRUE

ZipFaults == [copy_error_at : 0..MaxEntries, db_error_at : 0..MaxEntries]

NoFaults == [copy_error_at |-> 0, db_error_at |-> 0]

zipvars == <<zip_pc, zip_archive, parent_url, zip_cur, zip_faults, extracted_files>>

ZipIdle ==
    /\ zip_pc = "idle"
    /\ zip_archive = [valid |-> FALSE, entries |-> <<>>]
    /\ parent_url = ""
    /\ zip_cur = NewCursor
    /\ zip_faults = NoFaults
    /\ extracted_files = <<>>

\* one call of extract_zip_file on a cursor whose transaction is new
ExtractZip(archive, input, faults) ==
    /\ zip_pc = "idle"
    /\ zip_pc' = "done"
    /\ zip_archive' = archive
    /\ parent_url' = input.parent_url
    /\ zip_faults' = faults
    /\ \E result \in {extract_zip_file(archive, input.zip_path, zip_cur, input.parent_url, "uuid-1", faults)} :
        /\ zip_cur' = result.cur
        /\ extracted_files' = result.extracted_files


(***************************************************************************)
(* The tags of a page (lines 1464-1475)                                    *)
(***************************************************************************)
TagSchemes == {"http://", "https://"}

TagHosts == {"www.imbel.gov.br", "blog.imbel.gov.br", "imbel.br"}

TagPaths ==
    {"", "/", "/noticias", "/noticias/", "/noticias/2024/123", "/42", "/v2", "/2024/noticias",
     "/noticias/2024-editais"}

TagQueries == {"", "?p=1", "#topo"}

\* a URL is kept as the tuple of its parts (scheme, host, path, query)
TagInputs ==
    {<<s, h, p, q>> : s \in TagSchemes, h \in TagHosts, p \in TagPaths, q \in TagQueries}

\* lines 1468-1475: the subdomain when the path gave no tag, and the
\* removal of empty tags
FallbackTags(tags0, subdomain) ==
    SelectSeq(IF tags0 # <<>> THEN tags0
              ELSE IF subdomain \notin {"", "www"} THEN <<subdomain>>
              ELSE <<>>,
              LAMBDA tag : tag # "")

TagsIdle == tag_pc = "idle" /\ tag_url = <<>> /\ tag_path = <<>> /\ tag_list = <<>>

TagsInit == tag_pc = "input" /\ tag_url \in TagInputs /\ tag_path = <<>> /\ tag_list = <<>>

\* lines 1464-1475
TagPage ==
    /\ tag_pc = "input"
    /\ tag_pc' = "done"
    /\ \E tags0 \in {extract_path_tags(Cat(tag_url))} :
         /\ tag_path' = tags0
         /\ tag_list' = FallbackTags(tags0, extract_subdomain(Cat(tag_url)))
    /\ UNCHANGED tag_url
(***************************************************************************)
(* process_empresa: the companies and the site                             *)
(***************************************************************************)
EMPRESAS ==
    [imbel |-> [url |-> "https://www.imbel.gov.br/", use_simplified_crawler |-> FALSE],
     ceitec |-> [url |-> "http://www.ceitec-sa.com/", use_simplified_crawler |-> TRUE],
     telebras |-> [url |-> "https://www.telebras.com.br/", use_simplified_crawler |-> FALSE]]

\* The site of a company, by the path below config["url"]: two pages, three
\* documents with an extension, one document without, and a link to a
\* document of another server that is not an http(s) URL.
SitePaths ==
    {"", "sobre", "docs/a.pdf", "docs/b.zip", "docs/c.pdf", "download/relatorio", "ftp://ftp.gov.br/a.pdf"}

\* the href values of the page, in document order
SiteLinks(path) ==
    CASE path = "" -> <<"sobre", "docs/a.pdf", "download/relatorio", "ftp://ftp.gov.br/a.pdf">>
      [] path = "sobre" -> <<"docs/b.zip", "docs/c.pdf", "">>
      [] OTHER -> <<>>

\* the Content-Type the site answers with
SiteContentType(path) ==
    CASE path \in {"docs/a.pdf", "docs/c.pdf"} -> "application/pdf"
      [] path = "docs/b.zip" -> "application/zip"
      [] path = "download/relatorio" -> "application/pdf"
      [] OTHER -> "text/html"

\* the archives the site may serve as docs/b.zip
SiteArchives ==
    {[valid |-> FALSE, entries |-> <<>>],
     [valid |-> TRUE,
      entries |-> <<[item |-> "vazio.txt", size |-> 0, placed |-> TRUE],
                    [item |-> "dados/a.pdf", size |-> 10, placed |-> TRUE],
                    [item |-> "a.pdf", size |-> 20, placed |-> TRUE]>>]}

\* lines 638-658: the path save_html_content returns
HtmlPath(url) ==
    CHOOSE file_path \in
        {IF EndsWith(filename, Chars[".html"]) THEN Str(filename) ELSE Str(filename) \o ".html" :
            filename \in {sanitize_filename(url)}} : TRUE

\* What the functions of the program compute for a URL of the site:
\* lines 1251-1275 (http, definitely, extension, keyword), 1312 and 1378
\* (document), 1465-1475 and 1586-1590 (path_tags, subdomain), 1598
\* (transparencia), 1460 (html_path), and of download_document whether it
\* rejects the site's answer as an HTML page (line 779) and the local_path
\* and file_type it returns otherwise.
UrlFacts(path, url, content_type) ==
    CHOOSE facts \in
        {[path |-> path,
          http |-> HasHttpScheme(url),
          definitely |-> is_definitely_document_url(url),
          extension |-> EndsWithAny(Lower(parsed_url.path), DOCUMENT_EXTENSIONS),
          keyword |-> ContainsAny(Lower(parsed_url.path), doc_keywords),
          raises |-> UrlparseRaises(url),
          document |-> is_document_url(url),
          path_tags |-> extract_path_tags(url),
          subdomain |-> extract_subdomain(url),
          transparencia |-> Contains(Lower(url), Chars["transparencia"]),
          html_path |-> HtmlPath(url),
          rejected |-> name.rejected,
          local_path |-> name.local_path,
          file_type |-> name.file_type] :
            parsed_url \in {urlparse(url)},
            name \in {ResponseName(filename, ResponseFilename(filename, url, content_type, ""),
                                   content_type) :
                        filename \in {UrlFilename(urlparse(url).path, CleanUrl(url))}}} : TRUE

\* the absolute URL of an href of the site
SiteUrl(company, path) ==
    IF StartsWith(Chars[path], Chars["ftp://"]) THEN path ELSE EMPRESAS[company].url \o path

SiteOf(company) ==
    [url \in {SiteUrl(company, path) : path \in SitePaths} |->
        CHOOSE facts \in
            {UrlFacts(path, Chars[SiteUrl(company, path)], SiteContentType(path)) :
                path \in {p \in SitePaths : SiteUrl(company, p) = url}} : TRUE]

\* the absolute URLs of the links of a page of the site
LinksOf(url) ==
    [i \in 1..Len(SiteLinks(site[url].path)) |-> SiteUrl(empresa, SiteLinks(site[url].path)[i])]

(***************************************************************************)
(* process_empresa: the run                                                *)
(***************************************************************************)
\* the largest number of runs of a behaviour
MaxRuns == 2

\* the largest number of failures (of the site, the network, the store) of a
\* behaviour
MaxFailures == 2

\* line 1522
chunk_size == 3

runvars ==
    <<empresa, site, env_ok, counters, logged, db, cache, run_pc, runs, failures, force_update, skip_browser, use_cache,
      existing_urls, probable_document_urls, document_urls, crawled_urls, frontier, seen,
      results, page_i, doc_i, download_tasks, download_results, idx, uuids, fetched, known_at_start,
      extractions>>

\* lines 1353-1354 and 1513-1515
ZeroCounters ==
    [novas_paginas |-> 0, atualizadas |-> 0, documentos_baixados |-> 0,
     documentos_falhos |-> 0, documentos_extraidos |-> 0]

\* no run has started
NotStarted ==
    /\ env_ok = TRUE
    /\ counters = ZeroCounters
    /\ logged = <<>>
    /\ db = <<>>
    /\ run_pc = "idle"
    /\ runs = 0
    /\ failures = 0
    /\ force_update = FALSE
    /\ skip_browser = FALSE
    /\ use_cache = FALSE
    /\ existing_urls = {}
    /\ probable_document_urls = {}
    /\ document_urls = <<>>
    /\ crawled_urls = {}
    /\ frontier = <<>>
    /\ seen = {}
    /\ results = <<>>
    /\ page_i = 0
    /\ doc_i = 0
    /\ download_tasks = <<>>
    /\ download_results = <<>>
    /\ idx = 0
    /\ uuids = 0
    /\ fetched = {}
    /\ known_at_start = {}
    /\ extractions = <<>>

\* no run has started and there are no cache files
NoRun == NotStarted /\ cache = [pages |-> {}, documents |-> {}]

RunIdle == empresa = "" /\ site = <<>> /\ NoRun

\* the nome_empresa arguments: the keys of EMPRESAS and one that is not a key
EmpresaKeys == DOMAIN EMPRESAS \cup {"petrobras"}

\* lines 121-135 and 166-181: the cache files of a company are read and
\* never written by the program; they are absent, or they are files that
\* were put there and that list URLs of the site
CacheFiles(company) ==
    IF company \notin DOMAIN EMPRESAS THEN {[pages |-> {}, documents |-> {}]}
    ELSE {[pages |-> {}, documents |-> {}],
          [pages |-> {EMPRESAS[company].url \o "sobre"},
           documents |-> {EMPRESAS[company].url \o "docs/a.pdf"}]}

\* the store is empty before the first run
RunInit ==
    /\ empresa \in EmpresaKeys
    /\ site = IF empresa \in DOMAIN EMPRESAS THEN SiteOf(empresa) ELSE <<>>
    /\ cache \in CacheFiles(empresa)
    /\ NotStarted

\* logger.info of a message that carries a count
Logged(msg, n) == logged' = Append(logged, [msg |-> msg, n |-> n])

\* lines 1067-1070: a name that is not a key of EMPRESAS
UnknownEmpresa ==
    /\ run_pc \in {"idle", "rejected"}
    /\ empresa \notin DOMAIN EMPRESAS
    /\ runs < MaxRuns
    /\ runs' = runs + 1
    /\ run_pc' = "rejected"
    /\ UNCHANGED <<empresa, site, download_tasks, env_ok, counters, logged, db, cache, failures, force_update,
                   skip_browser, use_cache, existing_urls, probable_document_urls, document_urls,
                   crawled_urls, frontier, seen, results, page_i, doc_i, download_results, idx,
                   uuids, fetched, known_at_start, extractions>>

\* lines 1114, 1222, 1330
Simplified == empresa = "ceitec" /\ EMPRESAS[empresa].use_simplified_crawler

\* SELECT link FROM tabela
Links(table) == {table[i].link : i \in 1..Len(table)}

\* SELECT id FROM tabela WHERE link = url
HasRow(table, url) == \E i \in 1..Len(table) : table[i].link = url

\* lines 1480-1505 and 1619-1640: the UPDATE of the row with the link, or
\* the INSERT of a new row
Upsert(table, row) ==
    IF HasRow(table, row.link)
    THEN [i \in 1..Len(table) |->
            IF table[i].link = row.link
            THEN [table[i] EXCEPT !.content = row.content, !.tags = row.tags,
                                  !.local_path = row.local_path]
            ELSE table[i]]
    ELSE Append(table, row)

\* one more failure, while the behaviour may have one
Failing(failed) ==
    IF failed THEN failures < MaxFailures /\ failures' = failures + 1
    ELSE failures' = failures

\* lines 1072-1105 and 1149-1153.  get_existing_urls (lines 394-415) opens
\* its connection outside its try: a missing environment variable leaves
\* process_empresa at line 1081 with the exception, in a run without force;
\* a SELECT that fails gives the empty set.
StartRun(force, skip, with_cache, select_ok, config_ok) ==
    /\ run_pc \in {"idle", "done", "aborted"}
    /\ empresa \in DOMAIN EMPRESAS
    /\ runs < MaxRuns
    /\ (force \/ ~config_ok) => select_ok
    /\ (~force /\ ~config_ok) => (~skip /\ ~with_cache)
    /\ Failing(~select_ok \/ ~config_ok)
    /\ env_ok' = config_ok
    /\ counters' = ZeroCounters
    /\ logged' = IF force \/ ~config_ok THEN <<>>
                 ELSE <<[msg |-> "Encontradas", n |-> IF select_ok THEN Cardinality(Links(db)) ELSE 0]>>
                      \o (IF with_cache
                          THEN <<[msg |-> "Adicionadas", n |-> Cardinality(cache.pages)],
                                 [msg |-> "Carregados", n |-> Cardinality(cache.documents)]>>
                          ELSE <<>>)
    /\ runs' = runs + 1
    /\ force_update' = force
    /\ skip_browser' = skip
    /\ use_cache' = with_cache
    /\ existing_urls' =
          IF force \/ ~config_ok THEN {}
          ELSE (IF select_ok THEN Links(db) ELSE {})
               \cup (IF with_cache THEN cache.pages \cup cache.documents ELSE {})
    /\ known_at_start' = Links(db)
    /\ probable_document_urls' = {}
    /\ document_urls' = <<>>
    /\ crawled_urls' = {}
    /\ frontier' = IF ~force /\ ~config_ok THEN <<>> ELSE <<EMPRESAS[empresa].url>>
    /\ seen' = IF ~force /\ ~config_ok THEN {} ELSE {EMPRESAS[empresa].url}
    /\ results' = <<>>
    /\ page_i' = 0
    /\ doc_i' = 0
    /\ download_results' = <<>>
    /\ idx' = 0
    /\ fetched' = {}
    /\ run_pc' = IF ~force /\ ~config_ok THEN "aborted"
                 ELSE IF Simplified THEN "crawl" ELSE "preanalysis"
    /\ UNCHANGED <<empresa, site, download_tasks, db, cache, uuids, extractions>>

\* lines 1220-1242: the GET of the start page
PreAnalysis(ok) ==
    /\ run_pc = "preanalysis"
    /\ Failing(~ok)
    /\ fetched' = fetched \cup {[op |-> "GET", url |-> EMPRESAS[empresa].url]}
    /\ probable_document_urls' =
          IF ok THEN {link \in Range(LinksOf(EMPRESAS[empresa].url)) : site[link].definitely}
          ELSE {}
    /\ run_pc' = "crawl"
    /\ UNCHANGED <<empresa, site, download_tasks, env_ok, counters, logged, db, cache, runs, force_update, skip_browser, use_cache,
                   existing_urls, document_urls, crawled_urls, frontier, seen, results, page_i,
                   doc_i, download_results, idx, uuids, known_at_start, extractions>>

\* the outcomes of the HEAD request of line 1289: a Content-Type that names
\* a document type, or any other answer or an exception
HeadKinds == {"document", "other"}

\* the append without the test of existing_urls
Queued_NoKnownCheck(queue, url) ==
    IF ~(\E i \in 1..Len(queue) : queue[i] = url) THEN Append(queue, url) ELSE queue

\* lines 1258, 1268, 1278, 1303, 1313
Queued(queue, url) ==
    IF ~(\E i \in 1..Len(queue) : queue[i] = url) /\ (force_update \/ url \notin existing_urls)
    THEN Append(queue, url) ELSE queue

\* lines 1245-1325: whether the URL may be navigated, and document_urls
\* after the call
should_process_url(url, head, queue) ==
    CHOOSE answer \in
        {[pass |-> verdict = "pass",
          document_urls |-> IF verdict = "queue" THEN Queued(queue, url) ELSE queue] :
            verdict \in {FilterVerdict([http |-> site[url].http,
                                        raises |-> site[url].raises,
                                        definitely |-> site[url].definitely,
                                        extension |-> site[url].extension,
                                        keyword |-> site[url].keyword,
                                        head_document |-> skip_browser /\ head = "document",
                                        probable |-> url \in probable_document_urls,
                                        document |-> site[url].document,
                                        known |-> ~force_update /\ url \in existing_urls])}} : TRUE

\* The crawling library on one link of a navigated page: a link it has not
\* scheduled yet is scheduled unless the filter (when one is installed,
\* lines 1330-1336) rejects it.
LinkStep(acc, link, head) ==
    IF link \in acc.seen THEN acc
    ELSE IF Simplified
    THEN [acc EXCEPT !.seen = @ \cup {link}, !.frontier = Append(@, link)]
    ELSE CHOOSE next \in
        {IF answer.pass
         THEN [seen |-> acc.seen \cup {link}, frontier |-> Append(acc.frontier, link),
               document_urls |-> answer.document_urls]
         ELSE [acc EXCEPT !.document_urls = answer.document_urls] :
            answer \in {should_process_url(link, head, acc.document_urls)}} : TRUE

LinkLoop(acc0, links, heads) ==
    LET loop[i \in 0..Len(links)] ==
            IF i = 0 THEN acc0
            ELSE CHOOSE next \in {LinkStep(acc, links[i], heads[i]) : acc \in {loop[i - 1]}} : TRUE
    IN  loop[Len(links)]

\* line 1339, one page of crawler.arun: the library navigates the next
\* scheduled URL and, when that succeeds, schedules the page's links
CrawlPage(ok, heads) ==
    /\ run_pc = "crawl"
    /\ frontier # <<>>
    /\ Failing(~ok)
    /\ fetched' = fetched \cup {[op |-> "navigate", url |-> Head(frontier)]}
    /\ results' = Append(results, [url |-> Head(frontier), success |-> ok])
    /\ \E next \in {IF ok
                    THEN LinkLoop([seen |-> seen, frontier |-> Tail(frontier),
                                   document_urls |-> document_urls],
                                  LinksOf(Head(frontier)), heads)
                    ELSE [seen |-> seen, frontier |-> Tail(frontier),
                          document_urls |-> document_urls]} :
        /\ seen' = next.seen
        /\ frontier' = next.frontier
        /\ document_urls' = next.document_urls
    /\ UNCHANGED <<empresa, site, download_tasks, env_ok, counters, logged, db, cache, run_pc, runs, force_update,
                   skip_browser, use_cache,
                   existing_urls, probable_document_urls, crawled_urls, page_i, doc_i,
                   download_results, idx, uuids, known_at_start, extractions>>

\* the HEAD answers that make a difference to the next navigation
HeadsOf(ok) ==
    IF run_pc # "crawl" \/ frontier = <<>> THEN {<<>>}
    ELSE IF ok /\ skip_browser /\ ~Simplified
    THEN [1..Len(LinksOf(Head(frontier))) -> HeadKinds]
    ELSE {[i \in 1..Len(LinksOf(Head(frontier))) |-> "other"]}

\* lines 1339-1354: arun returns, and the connection of the run is opened
\* (get_db_connection raises when an environment variable is missing)
CrawlReturns ==
    /\ run_pc = "crawl"
    /\ frontier = <<>>
    /\ crawled_urls' = {results[i].url : i \in {k \in 1..Len(results) : results[k].success}}
    /\ Logged("Crawled", Len(results))
    /\ page_i' = IF env_ok THEN 1 ELSE page_i
    /\ run_pc' = IF env_ok THEN "pages" ELSE "aborted"
    /\ UNCHANGED <<empresa, site, download_tasks, env_ok, counters, db, cache, runs, failures, force_update, skip_browser, use_cache,
                   existing_urls, probable_document_urls, document_urls, frontier, seen, results,
                   doc_i, download_results, idx, uuids, fetched, known_at_start, extractions>>

\* lines 1376-1386: one link of a page result
FoundStep(queue, link) ==
    IF site[link].document /\ ~(\E i \in 1..Len(queue) : queue[i] = link)
       /\ link \notin existing_urls
    THEN Append(queue, link) ELSE queue

FoundLoop(queue0, links) ==
    LET loop[i \in 0..Len(links)] ==
            IF i = 0 THEN queue0
            ELSE CHOOSE next \in {FoundStep(queue, links[i]) : queue \in {loop[i - 1]}} : TRUE
    IN  loop[Len(links)]

\* lines 1465-1475 and 1500-1502
PageRow(url) ==
    [content |-> [title |-> "markdown", filename |-> "", file_type |-> ""],
     link |-> url,
     local_path |-> site[url].html_path,
     tags |-> IF site[url].path_tags # <<>> THEN site[url].path_tags
              ELSE IF site[url].subdomain \notin {"", "www"} THEN <<site[url].subdomain>>
              ELSE <<>>,
     parent_document |-> None]

\* lines 1494-1503: the counter of the branch of the upsert
Counted(table, url, updated, inserted) ==
    IF HasRow(table, url) THEN [counters EXCEPT ![updated] = @ + 1]
    ELSE [counters EXCEPT ![inserted] = @ + 1]

\* lines 1357-1508: one pass of the loop over the page results.  The page
\* file is written by save_html_content (lines 1459-1461) outside any try:
\* an error of open or write leaves process_empresa with the exception.
PageResult(db_ok, write_ok) ==
    /\ run_pc = "pages"
    /\ page_i <= Len(results)
    /\ ~results[page_i].success => (db_ok /\ write_ok)
    /\ ~write_ok => db_ok
    /\ Failing(~db_ok \/ ~write_ok)
    /\ IF ~results[page_i].success
       THEN /\ page_i' = page_i + 1
            /\ UNCHANGED <<document_urls, db, counters, run_pc>>
       ELSE /\ document_urls' = FoundLoop(document_urls, LinksOf(results[page_i].url))
            /\ IF write_ok
               THEN /\ page_i' = page_i + 1
                    /\ db' = IF db_ok THEN Upsert(db, PageRow(results[page_i].url)) ELSE db
                    /\ counters' = IF db_ok
                                   THEN Counted(db, results[page_i].url, "atualizadas", "novas_paginas")
                                   ELSE counters
                    /\ UNCHANGED run_pc
               ELSE /\ run_pc' = "aborted"
                    /\ UNCHANGED <<page_i, db, counters>>
    /\ UNCHANGED <<empresa, site, download_tasks, env_ok, logged, cache, runs, force_update, skip_browser, use_cache,
                   existing_urls, probable_document_urls, crawled_urls, frontier, seen, results,
                   doc_i, download_results, idx, uuids, fetched, known_at_start, extractions>>

\* lines 1510-1529
BeginDocuments ==
    /\ run_pc = "pages"
    /\ page_i > Len(results)
    /\ doc_i' = 0
    /\ run_pc' = "docs"
    /\ Logged("Processando", Len(document_urls))
    /\ UNCHANGED <<empresa, site, download_tasks, env_ok, counters, db, cache, runs, failures, force_update, skip_browser, use_cache,
                   existing_urls, probable_document_urls, document_urls, crawled_urls, frontier,
                   seen, results, page_i, download_results, idx, uuids, fetched, known_at_start,
                   extractions>>

\* a fault: one batch holds every URL that is left in the queue
Chunk_WholeQueue == SubSeq(document_urls, doc_i + 1, Len(document_urls))

\* line 1538
Chunk ==
    SubSeq(document_urls, doc_i + 1,
           IF doc_i + chunk_size < Len(document_urls) THEN doc_i + chunk_size
           ELSE Len(document_urls))

\* a fault: the rows of the table are looked up in a forced run too
Tasks_AlwaysChecksRow == SelectSeq(Chunk, LAMBDA url : ~HasRow(db, url))

\* lines 1541-1551: the URLs of the batch for which a download is started
Tasks == SelectSeq(Chunk, LAMBDA url : force_update \/ ~HasRow(db, url))

\* what a download_document task gives to gather: its result tuple, or the
\* exception it raised ("rejected": the failure of line 782, for a URL that
\* the site answers with an HTML page)
DownloadFailures == {"failed", "exception"}

DownloadKinds == {"ok", "rejected"} \cup DownloadFailures

DownloadResult(url, kind) ==
    [kind |-> kind,
     local_path |-> IF kind = "ok" THEN site[url].local_path ELSE "",
     file_type |-> IF kind = "ok" THEN site[url].file_type ELSE ""]

\* lines 1518-1519
progress_interval == IF Len(document_urls) \div 10 > 1 THEN Len(document_urls) \div 10 ELSE 1

\* lines 1532-1551: a batch is built.  The SELECT of lines 1543-1547 is
\* outside any try: a store error in it leaves process_empresa with the
\* exception, before a download is started.  gather (line 1558) starts the
\* calls of download_document of the batch; a batch without tasks goes to
\* the pause of line 1684.
DocBatch(select_ok) ==
    /\ run_pc = "docs"
    /\ doc_i < Len(document_urls)
    /\ ~select_ok => ~force_update
    /\ IF doc_i % progress_interval = 0 \/ doc_i + chunk_size >= Len(document_urls)
       THEN Logged("Progresso de download", doc_i)
       ELSE UNCHANGED logged
    /\ Failing(~select_ok)
    /\ IF ~select_ok
       THEN /\ run_pc' = "aborted"
            /\ UNCHANGED <<download_tasks, fetched, doc_i>>
       ELSE IF Tasks = <<>>
       THEN /\ doc_i' = doc_i + chunk_size
            /\ UNCHANGED <<download_tasks, fetched, run_pc>>
       ELSE /\ download_tasks' = Tasks
            /\ fetched' = fetched \cup {[op |-> "download", url |-> Tasks[k]] : k \in 1..Len(Tasks)}
            /\ run_pc' = "gather"
            /\ UNCHANGED doc_i
    /\ UNCHANGED <<empresa, site, env_ok, counters, db, cache, runs, force_update, skip_browser, use_cache,
                   existing_urls, probable_document_urls, document_urls, crawled_urls, frontier,
                   seen, results, page_i, download_results, idx, uuids, known_at_start, extractions>>

\* lines 1555-1561 and 1676-1684: the downloads of the batch are awaited.
\* The wait times out, the calls are cancelled and the loop goes to its
\* next batch; or gather returns the results, the exceptions among them.
GatherReturns(kinds, timed_out) ==
    /\ run_pc = "gather"
    /\ download_tasks' = <<>>
    /\ IF timed_out
       THEN /\ Failing(TRUE)
            /\ fetched' = fetched \cup {[op |-> "cancelled", url |-> download_tasks[k]] :
                                            k \in 1..Len(download_tasks)}
            /\ doc_i' = doc_i + chunk_size
            /\ run_pc' = "docs"
            /\ UNCHANGED <<download_results, idx>>
       ELSE /\ \A k \in 1..Len(download_tasks) :
                   site[download_tasks[k]].rejected <=> kinds[k] = "rejected"
            /\ failures + Cardinality({k \in 1..Len(download_tasks) : kinds[k] \in DownloadFailures})
                 <= MaxFailures
            /\ failures' = failures
                             + Cardinality({k \in 1..Len(download_tasks) : kinds[k] \in DownloadFailures})
            /\ download_results' = [k \in 1..Len(download_tasks) |->
                                       DownloadResult(download_tasks[k], kinds[k])]
            /\ idx' = 1
            /\ run_pc' = "results"
            /\ UNCHANGED <<doc_i, fetched>>
    /\ UNCHANGED <<empresa, site, env_ok, counters, logged, db, cache, runs, force_update, skip_browser,
                   use_cache, existing_urls, probable_document_urls, document_urls, crawled_urls,
                   frontier, seen, results, page_i, uuids, known_at_start, extractions>>

\* the outcomes of the downloads of the batch that make a difference
KindsOf(timed_out) ==
    IF timed_out
    THEN {[k \in 1..Len(download_tasks) |-> "ok"]}
    ELSE [1..Len(download_tasks) -> DownloadKinds]

\* lines 1586-1599 and 1611-1614: the row of a downloaded document
DocRow(doc_url, result) ==
    [content |-> [title |-> "Documento", filename |-> result.local_path,
                  file_type |-> result.file_type],
     link |-> doc_url,
     local_path |-> result.local_path,
     tags |-> (IF site[doc_url].path_tags # <<>> THEN site[doc_url].path_tags
               ELSE IF site[doc_url].subdomain \notin {"", "www"} THEN <<site[doc_url].subdomain>>
               ELSE <<>>)
              \o <<result.file_type, "documento">>
              \o (IF site[doc_url].transparencia THEN <<"transparencia">> ELSE <<>>),
     parent_document |-> None]

\* line 1646
IsZip(result) ==
    result.file_type = "zip" \/ EndsWith(Lower(Chars[result.local_path]), Chars[".zip"])

\* a fault: the archive is extracted although its row was not saved
ExtractsArchive_Unsaved(saved, result) == IsZip(result)

\* lines 1640-1646: the extraction follows the commit of the document's row
ExtractsArchive(saved, result) == saved /\ IsZip(result)

\* the result loop goes on to its next result, or the batch loop to its
\* next batch
NextResult ==
    IF idx < Len(download_results)
    THEN idx' = idx + 1 /\ run_pc' = "results" /\ UNCHANGED <<download_results, doc_i>>
    ELSE idx' = 0 /\ run_pc' = "docs" /\ download_results' = <<>> /\ doc_i' = doc_i + chunk_size

\* lines 1564-1646 and 1672-1675: one result of the batch, up to the commit
\* or the rollback of the document's row
PersistResult(db_ok) ==
    /\ run_pc = "results"
    /\ download_results[idx].kind # "ok" => db_ok
    /\ Failing(~db_ok)
    /\ IF download_results[idx].kind # "ok"
       THEN /\ counters' = [counters EXCEPT !.documentos_falhos = @ + 1]
            /\ UNCHANGED db
            /\ NextResult
       ELSE /\ db' = IF db_ok THEN Upsert(db, DocRow(Chunk[idx], download_results[idx])) ELSE db
            /\ counters' = IF db_ok THEN [counters EXCEPT !.documentos_baixados = @ + 1]
                           ELSE counters
            /\ IF ExtractsArchive(db_ok, download_results[idx])
               THEN run_pc' = "extract" /\ UNCHANGED <<idx, download_results, doc_i>>
               ELSE NextResult
    /\ UNCHANGED <<empresa, site, download_tasks, env_ok, logged, cache, runs, force_update, skip_browser, use_cache,
                   existing_urls, probable_document_urls, document_urls, crawled_urls, frontier,
                   seen, results, page_i, uuids, fetched, known_at_start, extractions>>

\* lines 1647-1670: the archive is extracted on the cursor, whose transaction
\* is new after the commit of line 1640, and the transaction is committed
\* (a COMMIT of a transaction in which a statement failed discards its rows)
ExtractArchive(archive, zfaults) ==
    /\ run_pc = "extract"
    /\ Failing(zfaults # NoFaults)
    /\ zfaults # NoFaults => archive.valid
    /\ \E result \in {extract_zip_file(archive, download_results[idx].local_path, NewCursor,
                                       Chunk[idx], "uuid-" \o ToString(uuids + 1), zfaults)} :
        /\ db' = IF result.cur.aborted THEN db ELSE db \o result.cur.rows
        /\ counters' = [counters EXCEPT !.documentos_extraidos = @ + Len(result.extracted_files)]
    /\ uuids' = IF archive.valid THEN uuids + 1 ELSE uuids
    /\ extractions' = Append(extractions, Chunk[idx])
    /\ NextResult
    /\ UNCHANGED <<empresa, site, download_tasks, env_ok, logged, cache, runs, force_update, skip_browser, use_cache,
                   existing_urls, probable_document_urls, document_urls, crawled_urls, frontier,
                   seen, results, page_i, fetched, known_at_start>>

\* the faults of an extraction: at most one
RunZipFaults == {zfaults \in ZipFaults : zfaults.copy_error_at = 0 \/ zfaults.db_error_at = 0}

\* line 1686: the batch loop has ended and process_empresa returns; no
\* statement after the loop reads the counters
RunReturns ==
    /\ run_pc = "docs"
    /\ doc_i >= Len(document_urls)
    /\ run_pc' = "done"
    /\ UNCHANGED <<empresa, site, download_tasks, env_ok, counters, logged, db, cache, runs, failures, force_update, skip_browser, use_cache,
                   existing_urls, probable_document_urls, document_urls, crawled_urls, frontier,
                   seen, results, page_i, doc_i, download_results, idx, uuids, fetched,
                   known_at_start, extractions>>

(***************************************************************************)
(* Specifications                                                          *)
(***************************************************************************)
vars == <<clvars, tagvars, dlvars, zipvars, runvars>>

NextClassify == Classify /\ UNCHANGED <<tagvars, dlvars, zipvars, runvars>>

InitClassify == ClassifyInit /\ TagsIdle /\ DownloadIdle /\ ZipIdle /\ RunIdle

SpecClassify == InitClassify /\ [][NextClassify]_vars

NextTags == TagPage /\ UNCHANGED <<clvars, dlvars, zipvars, runvars>>

InitTags == ClassifyIdle /\ TagsInit /\ DownloadIdle /\ ZipIdle /\ RunIdle

SpecTags == InitTags /\ [][NextTags]_vars

NextDownload ==
    \/ \E u \in DownloadInputs : DlCall(u) /\ UNCHANGED <<clvars, tagvars, zipvars, runvars>>
    \/ \E r \in HeadOutcomes : DlHead(r) /\ UNCHANGED <<clvars, tagvars, zipvars, runvars>>
    \/ \E r \in GetOutcomes : DlGet(r) /\ UNCHANGED <<clvars, tagvars, zipvars, runvars>>
    \/ \E ev \in ChunkOutcomes : DlChunk(ev) /\ UNCHANGED <<clvars, tagvars, zipvars, runvars>>
    \/ DlCancel /\ UNCHANGED <<clvars, tagvars, zipvars, runvars>>

InitDownload == ClassifyIdle /\ TagsIdle /\ DownloadIdle /\ ZipIdle /\ RunIdle

SpecDownload == InitDownload /\ [][NextDownload]_vars


NextZip ==
    /\ zip_pc = "idle"
    /\ \E archive \in ZipArchives, input \in ZipInputs, faults \in ZipFaults :
          ExtractZip(archive, input, faults) /\ UNCHANGED <<clvars, tagvars, dlvars, runvars>>

InitZip == ClassifyIdle /\ TagsIdle /\ DownloadIdle /\ ZipIdle /\ RunIdle

SpecZip == InitZip /\ [][NextZip]_vars

others == <<clvars, tagvars, dlvars, zipvars>>

Next ==
    \/ UnknownEmpresa /\ UNCHANGED others
    \/ \E force \in BOOLEAN, skip \in BOOLEAN, with_cache \in BOOLEAN, select_ok \in BOOLEAN,
          config_ok \in BOOLEAN :
          StartRun(force, skip, with_cache, select_ok, config_ok) /\ UNCHANGED others
    \/ \E ok \in BOOLEAN : PreAnalysis(ok) /\ UNCHANGED others
    \/ \E ok \in BOOLEAN : \E heads \in HeadsOf(ok) :
          CrawlPage(ok, heads) /\ UNCHANGED others
    \/ CrawlReturns /\ UNCHANGED others
    \/ \E db_ok \in BOOLEAN, write_ok \in BOOLEAN : PageResult(db_ok, write_ok) /\ UNCHANGED others
    \/ BeginDocuments /\ UNCHANGED others
    \/ \E select_ok \in BOOLEAN : DocBatch(select_ok) /\ UNCHANGED others
    \/ \E timed_out \in BOOLEAN : \E kinds \in KindsOf(timed_out) :
          GatherReturns(kinds, timed_out) /\ UNCHANGED others
    \/ \E db_ok \in BOOLEAN : PersistResult(db_ok) /\ UNCHANGED others
    \/ \E archive \in SiteArchives, zfaults \in RunZipFaults :
          ExtractArchive(archive, zfaults) /\ UNCHANGED others
    \/ RunReturns /\ UNCHANGED others

Init == ClassifyIdle /\ TagsIdle /\ DownloadIdle /\ ZipIdle /\ RunInit

Spec == Init /\ [][Next]_vars
(***************************************************************************)
(* Claims                                                                  *)
(***************************************************************************)

\* C10: every http(s) URL whose path contains a document directory pattern
\* and ends with a web-page extension is classified as a page
\* (is_document_url returns false).
C10_PatternWithWebExtensionIsPage ==
    (/\ cl_pc = "classified"
     /\ HasHttpScheme(Cat(cl_url))
     /\ ContainsAny(urlparse(Cat(cl_url)).path, DOCUMENT_PATH_PATTERNS)
     /\ EndsWithAny(urlparse(Cat(cl_url)).path, WEB_PAGE_EXTENSIONS)
     /\ EndsWithAny(Cat(cl_url), WEB_PAGE_EXTENSIONS))
    => cl_doc = FALSE


\* the path of the classified URL ends in a known document extension
\* (compared without regard to case, as the code does)
PathEndsInDocumentExtension ==
    EndsWithAny(Lower(urlparse(Cat(cl_url)).path), DOCUMENT_EXTENSIONS)

\* C11 (as stated): every URL that ends in a known document extension is
\* classified as a document by is_document_url, whatever the rest of the
\* path and the query string contain.
C11_ExtensionIsDocument ==
    (cl_pc = "classified" /\ PathEndsInDocumentExtension) => cl_doc = TRUE

\* C11 (amended): every URL that starts with http:// or https:// (in lower
\* case), that urlparse can parse and whose path ends in a known document
\* extension is classified as a document, whatever the rest of the path and
\* the query string contain; a URL with any other beginning, or one that
\* urlparse cannot parse, is never classified as a document.
C11_HttpExtensionIsDocument ==
    cl_pc = "classified" =>
        /\ (HasHttpScheme(Cat(cl_url)) /\ ~UrlparseRaises(Cat(cl_url)) /\ PathEndsInDocumentExtension)
              => cl_doc = TRUE
        /\ (~HasHttpScheme(Cat(cl_url)) \/ UrlparseRaises(Cat(cl_url))) => cl_doc = FALSE

\* an upper-case extension, in a directory and with a query that say nothing
\* about documents, has been classified
C11_Witness ==
    /\ cl_pc = "classified"
    /\ cl_url = <<"https://", "portal.gov.br", "/noticias/", "a", ".PDF", "?id=7">>
    /\ cl_doc = TRUE

(***************************************************************************)
(* download_document                                                       *)
(***************************************************************************)
\* the failing answers an attempt can meet that the retry loop is said to
\* absorb: a status that is neither 2xx nor 404 on the header probe or on the
\* GET, a connection error, a timeout, a zero-byte body
RetryableFailure(e) ==
    \/ e.what = "status" /\ e.status \notin 200..299 /\ e.status # 404
    \/ e.what \in {"TimeoutError", "ClientError", "Exception"}
    \/ e.what \in {"empty", "chunk_timeout", "error"}

\* C4: a call of download_document that returns failure after a failing
\* answer of one of these kinds has made exactly MAX_RETRIES attempts (so
\* that MAX_RETRIES - 1 failing attempts can be followed by a successful one).
C4_FailureOnlyAfterAllAttempts ==
    (dl_pc = "done" /\ ~dl_result.success /\ RetryableFailure(dl_last))
    => dl_last.attempt = MAX_RETRIES

\* C5: a 404 status ends the call at once with failure; every other non-2xx
\* status, on the header probe or on the GET, is followed, while attempts
\* remain, by a sleep of 2 * attempt_number seconds and another attempt.
C5_StatusHandling ==
    /\ (dl_last.what = "status" /\ dl_last.status = 404)
       => (dl_pc = "done" /\ dl_result = Failure /\ Len(dl_sleeps) = dl_last.attempt - 1)
    /\ (dl_last.what = "status" /\ dl_last.status # 404 /\ dl_last.attempt < MAX_RETRIES)
       => /\ dl_pc # "done"
          /\ attempt = dl_last.attempt
          /\ Len(dl_sleeps) = dl_last.attempt
          /\ \A i \in 1..Len(dl_sleeps) : dl_sleeps[i] = 2 * i

\* C6: when a file exists at the local path derived from the URL, the call
\* returns success with that path, issues no network request and leaves
\* the disk as it was.
C6_ExistingFileShortCircuit ==
    dl_existed =>
        /\ dl_pc = "done"
        /\ dl_result.success /\ dl_result.local_path = dl_filename
        /\ dl_filename \in DOMAIN dl_disk0
        /\ dl_net = <<>>
        /\ disk = dl_disk0

C6_Witness == dl_existed /\ dl_pc = "done" /\ dl_calls = MaxCalls

\* the characters of the file name the finished call worked with
ReturnedFilename ==
    IF dl_existed
    THEN Lookup(UrlNames, dl_url).filename
    ELSE Lookup(ResponseNames, <<dl_url, dl_response.content_type,
                                 dl_response.content_disposition>>).filename

\* the file type a content type stands for, for the content types of the model
TypeOfContentType(content_type) ==
    CASE content_type = "application/pdf" -> "pdf"
      [] content_type = "application/zip" -> "arquivo_compactado"
      [] OTHER -> "documento"

\* a successful call returns a path and a type; the type is the extension of
\* the file name when it has one, else "documento" for a file that was on
\* disk already, else the type the content type stands for
SuccessHasPathAndType ==
    LET extension == lstrip_dot(splitext(ReturnedFilename)[2])
    IN  /\ dl_result.local_path = Str(ReturnedFilename)
        /\ dl_result.local_path # "" /\ dl_result.file_type # ""
        /\ dl_result.file_type =
              IF extension # <<>> THEN Str(extension)
              ELSE IF dl_existed THEN "documento"
              ELSE TypeOfContentType(dl_response.content_type)

NonEmptyFiles ==
    {i \in 1..Len(zip_archive.entries) :
        /\ ~EndsWith(Chars[zip_archive.entries[i].item], Chars["/"])
        /\ zip_archive.entries[i].size > 0}

PlacedFiles == {i \in NonEmptyFiles : zip_archive.entries[i].placed}

\* the entry whose copy raised and ended the loop (0: none)
CopyRaisedAt == IF zip_faults.copy_error_at \in PlacedFiles THEN zip_faults.copy_error_at ELSE 0

\* the entries whose copy was made
CopiedFiles == {i \in PlacedFiles : CopyRaisedAt = 0 \/ i < CopyRaisedAt}

\* the entries whose INSERT was executed without error
InsertedFiles ==
    {i \in CopiedFiles : zip_faults.db_error_at \notin CopiedFiles \/ i < zip_faults.db_error_at}

\* the k-th element of a set of numbers, in increasing order
Nth(S, k) == CHOOSE i \in S : Cardinality({j \in S : j < i}) = k - 1

C1_NoFetchOfPersistedUrl ==
    ~force_update => \A f \in fetched : f.url \notin known_at_start

\* C2: when a run has reached its end, the company's cache files list every
\* page URL that was crawled with success and every document URL that was
\* downloaded in the run.
C2_CacheHoldsProcessedUrls ==
    run_pc = "done" =>
        /\ crawled_urls \subseteq cache.pages
        /\ {f.url : f \in {g \in fetched : g.op = "download"}} \subseteq cache.documents

\* C3: in every run, no URL for which is_definitely_document_url is true is
\* navigated as a page, and no URL is both among the crawled page results
\* and in the document queue.
C3_NoDocumentNavigated ==
    /\ \A f \in fetched : f.op = "navigate" => ~site[f.url].definitely
    /\ \A i \in 1..Len(results), k \in 1..Len(document_urls) : results[i].url # document_urls[k]

\* C9: every extracted-file row of the table has a parent_document that is
\* the link of a row inserted before it that is not itself an extracted-file
\* row; when an archive is about to be extracted, the committed table holds
\* the archive's document row; and every archive that was ever extracted has
\* its row.
C9_ParentRowExists ==
    /\ \A i \in 1..Len(db) :
          db[i].parent_document # None =>
              \E k \in 1..(i - 1) :
                  db[k].link = db[i].parent_document /\ db[k].parent_document = None
    /\ run_pc = "extract" =>
          \E k \in 1..Len(db) : db[k].link = Chunk[idx] /\ db[k].content.title = "Documento"
    /\ \A e \in 1..Len(extractions) : HasRow(db, extractions[e])

\* a run has ended after it saved the rows of an archive's files, and an
\* earlier write of a document row of the behaviour had failed
C9_Witness ==
    /\ run_pc = "done"
    /\ failures > 0
    /\ extractions # <<>>
    /\ \E i \in 1..Len(db) : db[i].parent_document # None

\* the URL is in the document queue
InQueue(url) == \E k \in 1..Len(document_urls) : document_urls[k] = url

\* the URL was navigated by the crawler in this run
Navigated(url) == \E i \in 1..Len(results) : results[i].url = url

\* C12: in a run with force the known-URL set is empty; once the crawl has
\* returned, every http(s) link of every page that was navigated with
\* success was itself navigated or is in the document queue, whether or not
\* the table held it; a download is started for every URL of every batch
\* and, at the end of the run, has been started for every URL of the queue;
\* and every download that succeeded and whose store write did not fail
\* leaves the document's row, new or updated, in the table.
C12_ForcedRunReprocesses ==
    /\ [](force_update => existing_urls = {})
    /\ []((force_update /\ run_pc \in {"pages", "docs", "results", "extract", "done"}) =>
            \A i \in 1..Len(results) :
                results[i].success =>
                    \A link \in Range(LinksOf(results[i].url)) :
                        Navigated(link) \/ InQueue(link) \/ ~site[link].http)
    /\ []((force_update /\ run_pc = "results") =>
            /\ Len(download_results) = Len(Chunk)
            /\ \A k \in 1..Len(Chunk) : [op |-> "download", url |-> Chunk[k]] \in fetched)
    /\ []((force_update /\ run_pc = "done") =>
            \A k \in 1..Len(document_urls) :
                [op |-> "download", url |-> document_urls[k]] \in fetched)
    /\ [][(/\ force_update
           /\ run_pc = "results"
           /\ download_results[idx].kind = "ok"
           /\ failures' = failures) =>
              \E i \in 1..Len(db') :
                  /\ db'[i].link = Chunk[idx]
                  /\ db'[i].content = DocRow(Chunk[idx], download_results[idx]).content
                  /\ db'[i].local_path = download_results[idx].local_path]_vars

\* a forced run has ended in which a page that the table held was navigated
\* again and a document that the table held was downloaded again
C12_Witness ==
    /\ force_update
    /\ run_pc = "done"
    /\ \E f \in fetched : f.op = "navigate" /\ f.url \in known_at_start
    /\ \E f \in fetched : f.op = "download" /\ f.url \in known_at_start

(***************************************************************************)
(* the transactions of the store                                           *)
(***************************************************************************)
\* C13: every write of the store is its own transaction, committed when it
\* succeeds and rolled back when it fails: when extract_zip_file has
\* returned, no failed statement is left in the cursor's transaction, and
\* every entry that was copied has its row except the one entry whose
\* INSERT failed.
C13_FailedInsertBlocksNoOther ==
    (zip_pc = "done" /\ zip_archive.valid) =>
        /\ ~zip_cur.aborted
        /\ Len(zip_cur.rows) = Cardinality(CopiedFiles \ {zip_faults.db_error_at})

(***************************************************************************)
(* failures and the end of a run                                           *)
(***************************************************************************)
\* C14: no failure in the processing of one URL ends the run of a company:
\* when process_empresa has ended, by returning or by an exception, in an
\* environment whose configuration is complete, the page loop has passed
\* every page result and the batch loop every queued document.
C14_PerUrlFailureAbortsNothing ==
    (run_pc \in {"done", "aborted"} /\ env_ok) =>
        (page_i > Len(results) /\ doc_i >= Len(document_urls))

\* C15: a configuration failure is detected before any network activity:
\* in a run whose environment lacks a required variable, forced or not, and
\* in a call with a name that is not a key of EMPRESAS, no GET, no
\* navigation and no download is ever issued.
C15_ConfigFailureBeforeNetwork ==
    (~env_ok \/ empresa \notin DOMAIN EMPRESAS) => fetched = {}

\* the messages of process_empresa that carry a count, all of them emitted
\* before or during the loops: the known URLs (lines 1083, 1090, 1102), the
\* crawled results (line 1346), the queued documents (line 1511) and the
\* position of the batch loop (line 1535)
ProgressMessages ==
    {"Encontradas", "Adicionadas", "Carregados", "Crawled", "Processando", "Progresso de download"}

\* C16: every run that has finished its pages and its documents has emitted
\* a summary: a record, other than the progress records, that carries the
\* counts of the run.
C16_SummaryEmitted ==
    run_pc = "done" =>
        \E k \in 1..Len(logged) : logged[k].msg \notin ProgressMessages

(***************************************************************************)
(* tags                                                                    *)
(***************************************************************************)
\* the segments of the path of the URL whose tags were derived
TagSegments == SplitNonEmpty(Chars[tag_url[3]], "/")

\* the leftmost label of the host of that URL
TagHostLabel == Str(Take(Chars[tag_url[2]], Find(Chars[tag_url[2]], ".") - 1))

\* the host has a label before its domain (more than two labels)
TagHostHasSubdomain == Cardinality({i \in 1..Len(Chars[tag_url[2]]) : Chars[tag_url[2]][i] = "."}) > 1

\* C17: the path /noticias/2024/123 gives exactly the tag noticias; when
\* the first segment has no digit, the tags of the
\* path are its segments without digits, in order; a path of one segment
\* with digits gives no tag or the segment's remainder without its digits;
\* and a URL whose path has no segments, with or without a slash after the
\* host, gives no path tag, its tag list being the leftmost label of the
\* host when the host has a subdomain that is not www, and empty when that
\* label is www.
C17_TagDerivation ==
    tag_pc = "done" =>
        /\ tag_url[3] = "/noticias/2024/123" => tag_path = <<"noticias">>
        /\ (TagSegments # <<>> /\ ~HasDigit(TagSegments[1])) =>
              tag_path = [i \in 1..Len(SelectSeq(TagSegments, LAMBDA seg : ~HasDigit(seg))) |->
                             Str(SelectSeq(TagSegments, LAMBDA seg : ~HasDigit(seg))[i])]
        /\ (Len(TagSegments) = 1 /\ HasDigit(TagSegments[1])) =>
              tag_path \in {<<>>, <<Str(Strip(RemoveDigits(TagSegments[1]), {",", ".", "-", "_"}))>>}
        /\ TagSegments = <<>> =>
              /\ tag_path = <<>>
              /\ TagHostHasSubdomain =>
                    tag_list = IF TagHostLabel = "www" THEN <<>> ELSE <<TagHostLabel>>

(***************************************************************************)
(* the rows of the documents                                               *)
(***************************************************************************)
\* C18: every download result is written under the URL that was
\* downloaded: the file of every document row of the table is the file
\* that download_document gives for the row's link.
C18_RowOfDownloadedUrl ==
    \A i \in 1..Len(db) :
        db[i].content.title = "Documento" => db[i].local_path = site[db[i].link].local_path

\* a run is between its start and its end
RunActive == run_pc \in {"preanalysis", "crawl", "pages", "docs", "results", "extract"}

\* C19: in a run without force the UPDATE branch of the page upsert is never
\* taken (atualizadas stays 0), and no step of the run changes a row that
\* the table holds.
C19_NoUpdateWithoutForce ==
    /\ [](~force_update => counters.atualizadas = 0)
    /\ [][(~force_update /\ RunActive) =>
             (Len(db') >= Len(db) /\ \A i \in 1..Len(db) : db'[i] = db[i])]_vars

(***************************************************************************)
(* the downloaded file                                                     *)
(***************************************************************************)
\* C20: whenever download_document has returned success, the file at the
\* returned path exists and is not empty, whatever the earlier calls for the
\* same path did, an earlier call that was cancelled after it created the
\* file included.
C20_SuccessMeansNonEmptyFile ==
    (dl_pc = "done" /\ dl_result.success) =>
        (FileExists(disk, dl_result.local_path) /\ disk[dl_result.local_path] > 0)

\* C21: a read of the body that times out after at least one byte was written
\* ends the call as success, with the file as it was received so far; a read
\* that times out before any byte was written removes the empty file, and
\* the call goes to its next attempt while one remains and returns failure
\* on the last one.
C21_ChunkTimeout ==
    [][(dl_pc = "stream" /\ dl_pc' \in {"head", "done"}
        /\ dl_last'.what \in {"partial_timeout", "chunk_timeout"})
       => IF content_size > 0
          THEN /\ dl_pc' = "done" /\ dl_result'.success
               /\ dl_result'.local_path = dl_filename
               /\ disk' = disk /\ disk[dl_filename] = content_size
          ELSE /\ ~FileExists(disk', dl_filename)
               /\ IF attempt < MAX_RETRIES - 1
                  THEN dl_pc' = "head" /\ attempt' = attempt + 1
                  ELSE dl_pc' = "done" /\ dl_result' = Failure]_vars

C21_Witness ==
    /\ dl_pc = "done" /\ dl_result.success /\ dl_last.what = "partial_timeout"
    /\ dl_last.attempt > 1 /\ disk[dl_result.local_path] = content_size

\* C22: within one extraction of an archive no two entries receive the same
\* virtual URL, entries with the same file name in different directories of
\* the archive included: the rows that extract_zip_file has inserted have
\* pairwise different links and pairwise different local paths.
C22_VirtualUrlsUnique ==
    zip_pc = "done" =>
        \A j, k \in 1..Len(zip_cur.rows) :
            j # k => /\ zip_cur.rows[j].link # zip_cur.rows[k].link
                     /\ zip_cur.rows[j].local_path # zip_cur.rows[k].local_path

\* C23: extract_zip_file returns an empty list, and inserts nothing, for a
\* malformed archive; for a well-formed archive in which the copy or the
\* INSERT of one entry fails, that entry alone is skipped: every other entry
\* that is a file of non-zero size left by the extraction has its row.
C23_EntryFailureSkipsOnlyThatEntry ==
    zip_pc = "done" =>
        IF ~zip_archive.valid
        THEN extracted_files = <<>> /\ zip_cur.rows = <<>>
        ELSE Len(zip_cur.rows)
                = Cardinality(PlacedFiles \ {zip_faults.copy_error_at, zip_faults.db_error_at})

\* C24: within one run at most 3 calls of download_document are in flight;
\* while the downloads of a batch are in flight no result of an earlier
\* batch is waiting to be persisted, and a batch starts only from the head
\* of the batch loop with no result left; a batch whose wait times out
\* leaves the rows of the table as they were, ends its downloads, and the
\* loop goes on to the next batch.
C24_BatchesOfThree ==
    /\ [](Len(download_tasks) <= 3)
    /\ [](download_tasks # <<>> => (run_pc = "gather" /\ download_results = <<>>))
    /\ [][(download_tasks' # <<>> /\ download_tasks' # download_tasks)
          => (run_pc = "docs" /\ download_tasks = <<>> /\ download_results = <<>> /\ idx = 0)]_vars
    /\ [][(run_pc = "gather" /\ \E f \in fetched' \ fetched : f.op = "cancelled")
          => /\ db' = db
             /\ download_tasks' = <<>>
             /\ run_pc' = "docs"
             /\ doc_i' = doc_i + 3]_vars

\* the first batch has saved its three documents, the second batch was
\* cancelled by its timeout, and the run has ended
C24_Witness ==
    /\ run_pc = "done"
    /\ Len(document_urls) = 4
    /\ counters.documentos_baixados = 3
    /\ [op |-> "cancelled", url |-> document_urls[4]] \in fetched
    /\ \A k \in 1..3 : HasRow(db, document_urls[k])

\* C25: the check that gates navigation is stricter than the classification:
\* every URL with an http:// or https:// scheme that
\* is_definitely_document_url accepts is accepted by is_document_url too
\* (so that a query key the first reacts to is one the second reacts to).
C25_DefinitelyImpliesDocument ==
    (cl_pc = "classified" /\ HasHttpScheme(Cat(cl_url))) => (cl_def => cl_doc)

\* C26: the URL that download_document requests has no fragment and no
\* doubled document extension in any letter case, normalising it again
\* changes nothing, and the local file name is the one derived from that
\* normalised URL.
C26_RequestedUrlNormalised ==
    dl_pc = "head" =>
        /\ Find(Chars[dl_clean_url], "#") = 0
        /\ \A i \in DOMAIN DOCUMENT_EXTENSIONS :
              ~Contains(Lower(Chars[dl_clean_url]),
                        Chars[DOCUMENT_EXTENSIONS[i]] \o Chars[DOCUMENT_EXTENSIONS[i]])
        /\ CleanUrl(Chars[dl_clean_url]) = Chars[dl_clean_url]
        /\ dl_filename = Str(UrlFilename(urlparse(Chars[dl_clean_url]).path, Chars[dl_clean_url]))

\* C27: when the classification of a URL raises an exception, the URL is
\* treated as not a document and as a page: is_document_url and
\* is_definitely_document_url return false, the URL is not queued as a
\* document, and the navigation filter lets it be crawled.
C27_ExceptionMeansPage ==
    (cl_pc = "classified" /\ HasHttpScheme(Cat(cl_url)) /\ UrlparseRaises(Cat(cl_url))) =>
        /\ cl_doc = FALSE
        /\ cl_def = FALSE
        /\ cl_nav # "queue"
        /\ cl_nav = "pass"

\* the URL is a document that a successfully navigated page of the run links
\* to and that had no row in the table when the run started
NewLinkedDocument(url) ==
    /\ site[url].document
    /\ url \notin known_at_start
    /\ \E k \in 1..Len(results) :
          /\ results[k].success
          /\ \E j \in 1..Len(LinksOf(results[k].url)) : LinksOf(results[k].url)[j] = url

\* C28: the cache files only save the lookup in the store.  A run without
\* force reads use_cache at lines 1087 and 1100 only, to add the URLs of the
\* files to existing_urls, so that the run with the cache and the run
\* without it differ exactly in the URLs that the files list beyond the
\* store: in a finished run with the cache enabled every new document that
\* a navigated page links to has been fetched, as it is in the run without
\* the cache.
C28_CacheOnlyAnOptimisation ==
    (run_pc = "done" /\ ~force_update /\ use_cache) =>
        \A url \in DOMAIN site :
            NewLinkedDocument(url) => \E f \in fetched : f.url = url /\ f.op \in {"navigate", "download"}

\* the queued URLs for which no download was started, a row being there
SkippedDocuments ==
    {k \in 1..Len(document_urls) : [op |-> "download", url |-> document_urls[k]] \notin fetched}

\* C29: at the end of the batch loop every queued document is accounted for
\* exactly once: the number of URLs skipped for their row, documentos_baixados
\* and documentos_falhos add up to the length of the queue, also when a
\* batch timed out or a write of the store failed.
C29_EveryDocumentCounted ==
    run_pc = "done" =>
        Cardinality(SkippedDocuments) + counters.documentos_baixados + counters.documentos_falhos
            = Len(document_urls)

\* C30: the document queue is well formed at every point of a company run:
\* no URL is in document_urls twice, every queued URL has the scheme http://
\* or https://, in a run without force no queued URL is in existing_urls,
\* the set computed at the start of the run, and within a run the queue only
\* grows at its end: the queue of the state before is a prefix of the queue
\* of the state after.
C30_QueueWellFormed ==
    /\ [](\A i, j \in 1..Len(document_urls) : document_urls[i] = document_urls[j] => i = j)
    /\ [](\A i \in 1..Len(document_urls) : HasHttpScheme(Chars[document_urls[i]]))
    /\ [](~force_update => \A i \in 1..Len(document_urls) : document_urls[i] \notin existing_urls)
    /\ [][runs' = runs =>
            /\ Len(document_urls) <= Len(document_urls')
            /\ SubSeq(document_urls', 1, Len(document_urls)) = document_urls]_vars

\* a finished run without force that knew a document at its start, navigated
\* the start page with its link that is no http(s) URL, and queued two
\* documents
C30_Witness ==
    /\ run_pc = "done"
    /\ ~force_update
    /\ \E url \in existing_urls : site[url].document
    /\ \E k \in 1..Len(results) : results[k].success /\ results[k].url = EMPRESAS[empresa].url
    /\ Len(document_urls) >= 2
====
